---- MODULE Spec2Model ----
(***************************************************************************)
(* Model of gezellig (src-tauri/src): the shared DJ queue of                *)
(* youtube_pipeline.rs, the audio publisher, the audio cache, the volume   *)
(* and the room roster.                                                    *)
(*                                                                         *)
(*  - the event log kept in a remote versioned file and the retry-protected*)
(*    append (append_event_with_retry, read_repo_file, write_repo_file);   *)
(*  - the projection of the log (fetch_shared_queue_data) and the skip     *)
(*    check (shared_skip_requested);                                       *)
(*  - the playback engine (YouTubePipeline::start/stop, run_playback_loop);*)
(*  - the frame assembler (dj_publisher.rs), the audio cache               *)
(*    (fetch_audio_streaming, prefetch_tracks, enforce_cache_limit),       *)
(*    set_volume, and RoomState (room.rs).                                 *)
(*                                                                         *)
(* Each component has a specification of its own (SpecAppend, SpecFold,    *)
(* SpecEngine and its variants, SpecQueueTrack, SpecFrames, SpecCache,     *)
(* SpecEvict, SpecRaw, SpecTwice, SpecVolume, SpecRoom); each one pins the *)
(* variables of the others.                                                *)
(***************************************************************************)
EXTENDS Integers, Sequences, FiniteSets, TLC

VARIABLES
    \* ---- SpecAppend: the store and the participants' appends
    store,      \* the remote file: [exists, content]
    ap,         \* per participant: position and locals of append_event_with_retry
    hist,       \* ghost: one record per write the store accepted
    \* ---- SpecFold: a log and what the engine derives from it
    flog,       \* the log content (sequence of events)
    data,       \* SharedQueueData computed from flog
    skipres,    \* shared_skip_requested(flog, q, w) for every q, w
    \* ---- SpecEngine: one engine, its loop, the log it shares
    elog,       \* the shared log
    eng,        \* the YouTubePipeline fields
    lp,         \* the playback loop task(s): position and locals
    sync,       \* the queue-refresh task spawned by the loop (push mode)
    env,        \* whether the store and the disk are taken to be reliable, and
                \* the number of lines the log is followed for
    \* ---- the other components, each with a specification of its own
    fa,         \* the frame assembler of the audio publisher (dj_publisher.rs)
    cache,      \* the audio cache directory and the fetches that use it
    raw,        \* a log file as text lines, parseable or not, and its readers
    volume,     \* the volume of an audio pipeline
    room        \* RoomState (room.rs)

varsAppend == <<store, ap, hist>>
varsFold   == <<flog, data, skipres>>
varsEngine == <<elog, eng, lp, sync, env>>  \* and data, the projection of elog
varsRest   == <<fa, cache, raw, volume, room>>
vars == <<store, ap, hist, flog, data, skipres, elog, eng, lp, sync, env,
          fa, cache, raw, volume, room>>

\* a specification pins the variables of the components it leaves out
RestIdle == fa = <<>> /\ cache = <<>> /\ raw = <<>> /\ volume = <<>> /\ room = <<>>

\* Option<T>: None is the empty sequence, Some(x) the one-element sequence.
None == <<>>
Some(x) == <<x>>
IsSome(o) == Len(o) > 0
Unwrap(o) == o[1]

Max(a, b) == IF a >= b THEN a ELSE b

----------------------------------------------------------------------------
(* Events.  A QueueEvent has an id, a type, an optional ref and an optional *)
(* order; url/title/by are carried by the queued id they belong to.        *)

\* The ids a ref or an order may name.
RefIds == 1..2

EvQueued(i)       == [id |-> i, type |-> "queued",    ref |-> None,    order |-> None]
EvRef(i, t, r)    == [id |-> i, type |-> t,           ref |-> Some(r), order |-> None]
EvCleared(i)      == [id |-> i, type |-> "cleared",   ref |-> None,    order |-> None]
EvReordered(i, o) == [id |-> i, type |-> "reordered", ref |-> None,    order |-> Some(o)]

RefTypes == {"playing", "played", "failed", "skip", "metadata"}

\* max over the ids of the parseable lines, 0 for none
RECURSIVE MaxId(_)
MaxId(content) ==
    IF content = <<>> THEN 0
    ELSE Max(MaxId(SubSeq(content, 1, Len(content) - 1)), content[Len(content)].id)

----------------------------------------------------------------------------
(* fetch_shared_queue_data: the fold over the lines, then the derived lists *)

\* the locals of fetch_shared_queue_data before the first line
FoldStart ==
    [max_id |-> 0, queued |-> <<>>, played |-> {}, failed |-> {},
     skip_events |-> {}, metadata |-> {}, last_cleared_id |-> 0,
     now_playing |-> None, latest_reorder |-> None]

\* HashMap::insert(k, v) on a map kept as a set of <<key, value>> pairs
MapInsert(m, k, v) == {p \in m : p[1] # k} \cup {<<k, v>>}
MapHas(m, k) == \E p \in m : p[1] = k
MapGet(m, k) == (CHOOSE p \in m : p[1] = k)[2]

\* "queued" arm: the program always writes the url, so the event registers
ApplyQueued(st, e) == [st EXCEPT !.queued = Append(@, e.id)]

ApplyPlayed(st, e) ==
    IF IsSome(e.ref) THEN [st EXCEPT !.played = @ \cup {Unwrap(e.ref)}] ELSE st

ApplyFailed(st, e) ==
    IF IsSome(e.ref) THEN [st EXCEPT !.failed = @ \cup {Unwrap(e.ref)}] ELSE st

\* "playing" arm: title and url are always written with it
ApplyPlaying(st, e) == [st EXCEPT !.now_playing = Some([queued_id |-> e.ref])]

ApplySkip(st, e) ==
    IF IsSome(e.ref)
    THEN [st EXCEPT !.skip_events = MapInsert(@, Unwrap(e.ref), e.id)]
    ELSE st

ApplyMetadata(st, e) ==
    IF IsSome(e.ref) THEN [st EXCEPT !.metadata = @ \cup {Unwrap(e.ref)}] ELSE st

\* mutant: the "cleared" arm is missing, the event falls through to `_ => {}`
ApplyCleared_Ignored(st, e) == st

ApplyCleared(st, e) ==
    [st EXCEPT !.last_cleared_id = Max(@, e.id),
               !.queued = <<>>, !.played = {}, !.failed = {},
               !.skip_events = {}, !.metadata = {},
               !.now_playing = None, !.latest_reorder = None]

ApplyReordered(st, e) ==
    IF IsSome(e.order) THEN [st EXCEPT !.latest_reorder = e.order] ELSE st

\* one iteration of the loop over content.lines()
ApplyEvent(st, e) ==
    LET s1 == [st EXCEPT !.max_id = Max(@, e.id)] IN
    CASE e.type = "queued"    -> ApplyQueued(s1, e)
      [] e.type = "played"    -> ApplyPlayed(s1, e)
      [] e.type = "failed"    -> ApplyFailed(s1, e)
      [] e.type = "playing"   -> ApplyPlaying(s1, e)
      [] e.type = "skip"      -> ApplySkip(s1, e)
      [] e.type = "metadata"  -> ApplyMetadata(s1, e)
      [] e.type = "cleared"   -> ApplyCleared(s1, e)
      [] e.type = "reordered" -> ApplyReordered(s1, e)
      [] OTHER                -> s1

RECURSIVE FoldLines(_, _)
FoldLines(st, content) ==
    IF content = <<>> THEN st
    ELSE FoldLines(ApplyEvent(st, Head(content)), Tail(content))

\* Vec::sort_by_key: a stable sort, key[x] the key of element x
RECURSIVE InsertByKey(_, _, _)
InsertByKey(s, x, key) ==
    IF s = <<>> THEN <<x>>
    ELSE IF key[s[Len(s)]] <= key[x] THEN Append(s, x)
    ELSE Append(InsertByKey(SubSeq(s, 1, Len(s) - 1), x, key), s[Len(s)])

RECURSIVE SortByKey(_, _)
SortByKey(s, key) ==
    IF s = <<>> THEN <<>>
    ELSE InsertByKey(SortByKey(SubSeq(s, 1, Len(s) - 1), key), s[Len(s)], key)

RECURSIVE Reverse(_)
Reverse(s) == IF s = <<>> THEN <<>> ELSE Append(Reverse(Tail(s)), Head(s))

SeqSet(s) == {s[i] : i \in 1..Len(s)}

\* mutant: an id the order does not name sorts before every named id
OrderKey_UnknownFirst(order, id) ==
    IF id \in SeqSet(order)
    THEN (CHOOSE i \in 1..Len(order) :
             order[i] = id /\ \A j \in (i + 1)..Len(order) : order[j] # id) - 1
    ELSE 0 - 1

\* order_map: id -> index; collecting into a HashMap keeps the last index of
\* an id named twice.  An id the order does not name sorts with usize::MAX,
\* modelled by Len(order), which is above every index.
OrderKey(order, id) ==
    IF id \in SeqSet(order)
    THEN (CHOOSE i \in 1..Len(order) :
             order[i] = id /\ \A j \in (i + 1)..Len(order) : order[j] # id) - 1
    ELSE Len(order)

NeedsMetadata(st) ==
    SelectSeq(st.queued, LAMBDA id : id > st.last_cleared_id /\ id \notin st.metadata)

SortedQueued(st) == SortByKey(st.queued, [id \in SeqSet(st.queued) |-> id])

TitleOf(st, id) == IF id \in st.metadata THEN Some("title") ELSE None

\* history: the concluded queued events, by queued id, reversed
History(st) ==
    LET kept == SelectSeq(SortedQueued(st),
                    LAMBDA id : id > st.last_cleared_id
                                /\ (id \in st.played \/ id \in st.failed))
    IN  [i \in 1..Len(kept) |->
            [url |-> Reverse(kept)[i], title |-> TitleOf(st, Reverse(kept)[i])]]

PlayingId(st) == IF IsSome(st.now_playing) THEN Unwrap(st.now_playing).queued_id ELSE None

\* mutant: the filter forgets the failed set
IsPending_IgnoresFailed(st, id) ==
    /\ id > st.last_cleared_id
    /\ id \notin st.played
    /\ Some(id) # PlayingId(st)

\* the pending filter (lines 1194-1199)
IsPending(st, id) ==
    /\ id > st.last_cleared_id
    /\ id \notin st.played
    /\ id \notin st.failed
    /\ Some(id) # PlayingId(st)

QueuedTrack(st, id) ==
    [url |-> id,
     title |-> IF id \in st.metadata THEN "title" ELSE "Loading...",
     queued_id |-> Some(id)]

Items(st) ==
    LET kept == SelectSeq(SortedQueued(st), LAMBDA id : IsPending(st, id))
        ids  == IF IsSome(st.latest_reorder)
                THEN SortByKey(kept, [id \in SeqSet(kept) |->
                                         OrderKey(Unwrap(st.latest_reorder), id)])
                ELSE kept
    IN  [i \in 1..Len(ids) |-> QueuedTrack(st, ids[i])]

\* mutant: the reset of lines 1221-1225 is missing
NowPlayingOut_Keeps(st) == st.now_playing

\* the reset of now_playing after the lists are built (lines 1221-1225)
NowPlayingOut(st) ==
    IF IsSome(PlayingId(st))
       /\ (Unwrap(PlayingId(st)) \in st.played \/ Unwrap(PlayingId(st)) \in st.failed)
    THEN None
    ELSE st.now_playing

\* lines 1227-1234: the SharedQueueData built from the locals
Project(st) ==
    [items |-> Items(st),
     now_playing |-> NowPlayingOut(st),
     max_id |-> st.max_id,
     skip_events |-> st.skip_events,
     needs_metadata |-> NeedsMetadata(st),
     history |-> History(st)]

\* fetch_shared_queue_data on the content read_repo_file returned
FetchSharedQueueData(content) == Project(FoldLines(FoldStart, content))

\* mutant: >= for >
SkipIsNewer_AtOrAbove(event_id, since_id) == event_id >= since_id

SkipIsNewer(event_id, since_id) == event_id > since_id

\* the lookup of shared_skip_requested in the data it fetched
SkipRequestedIn(d, queued_id, since_id) ==
    IF MapHas(d.skip_events, queued_id)
    THEN SkipIsNewer(MapGet(d.skip_events, queued_id), since_id)
    ELSE FALSE

\* shared_skip_requested on the content read
SharedSkipRequested(content, queued_id, since_id) ==
    SkipRequestedIn(FetchSharedQueueData(content), queued_id, since_id)

----------------------------------------------------------------------------
(* SpecFold: the log grows one event at a time (each with the id the       *)
(* append gives it) and every change is followed by the refresh that       *)
(* re-reads the log and projects it, and by the skip check.                *)

MaxLogLen == 5

QueuedIds(content) == {content[i].id : i \in {j \in 1..Len(content) : content[j].type = "queued"}}

Perms(S) == {o \in [1..Cardinality(S) -> S] : \A i, j \in 1..Cardinality(S) : o[i] = o[j] => i = j}

\* every watermark the skip check may be asked about
Watermarks == 0..(MaxLogLen + 1)

SkipChecks(content) ==
    LET d == FetchSharedQueueData(content) IN
    [q \in 1..MaxLogLen |-> [w \in Watermarks |-> SkipRequestedIn(d, q, w)]]

\* the refresh after a change of the log (lines 789-799) and the skip check
Refreshed(content) ==
    /\ flog' = content
    /\ data' = FetchSharedQueueData(content)
    /\ skipres' = SkipChecks(content)
    /\ UNCHANGED <<varsAppend, varsEngine, varsRest>>

\* append_queue_event
FoldQueued ==
    /\ Len(flog) < MaxLogLen
    /\ Refreshed(Append(flog, EvQueued(MaxId(flog) + 1)))

\* append_cleared_event
FoldCleared ==
    /\ Len(flog) < MaxLogLen
    /\ Refreshed(Append(flog, EvCleared(MaxId(flog) + 1)))

\* append_event_with_ref / append_playing_event / append_metadata_event: the
\* ref is the id of a queued event the writer has read from the log
FoldRefEvent ==
    /\ Len(flog) < MaxLogLen
    /\ \E t \in RefTypes, r \in QueuedIds(flog) :
          Refreshed(Append(flog, EvRef(MaxId(flog) + 1, t, r)))

\* the lists reorder_queue may be given: the caller's order of some or all
\* of the queued ids, each named once
Orders(S) == UNION {Perms(T) : T \in SUBSET S \ {{}}}

\* append_reorder_event: the order is written as the caller gave it
FoldReordered ==
    /\ Len(flog) < MaxLogLen
    /\ QueuedIds(flog) # {}
    /\ \E o \in Orders(QueuedIds(flog)) :
          Refreshed(Append(flog, EvReordered(MaxId(flog) + 1, o)))

InitFold ==
    /\ flog = <<>>
    /\ data = FetchSharedQueueData(<<>>)
    /\ skipres = SkipChecks(<<>>)
    /\ store = <<>> /\ ap = <<>> /\ hist = <<>>
    /\ elog = <<>> /\ eng = <<>> /\ lp = <<>> /\ sync = <<>> /\ env = <<>>
    /\ RestIdle

NextFold == FoldQueued \/ FoldCleared \/ FoldRefEvent \/ FoldReordered

SpecFold == InitFold /\ [][NextFold]_vars

\* ---- what the log itself says, read off the lines without the fold

\* the id of the latest cleared event, 0 when there is none
LatestClearedId(content) ==
    LET c == {content[i].id : i \in {j \in 1..Len(content) : content[j].type = "cleared"}}
    IN  IF c = {} THEN 0 ELSE CHOOSE m \in c : \A x \in c : x <= m

\* the position of the last cleared line, 0 when there is none
LastClearedPos(content) ==
    LET c == {j \in 1..Len(content) : content[j].type = "cleared"}
    IN  IF c = {} THEN 0 ELSE CHOOSE m \in c : \A x \in c : x <= m

\* some line of type t references q
Refers(content, t, q) ==
    \E i \in 1..Len(content) : content[i].type = t /\ content[i].ref = Some(q)

Concluded(content, q) == Refers(content, "played", q) \/ Refers(content, "failed", q)

\* the track of the last playing line after the last cleared line, unless
\* a played/failed line references it
CurrentPlaying(content) ==
    LET ps == {j \in (LastClearedPos(content) + 1)..Len(content) : content[j].type = "playing"}
        last == CHOOSE m \in ps : \A x \in ps : x <= m
    IN  IF ps = {} THEN None
        ELSE IF Concluded(content, Unwrap(content[last].ref)) THEN None
        ELSE content[last].ref

PendingIds(d) == {Unwrap(d.items[i].queued_id) : i \in 1..Len(d.items)}
HistoryIds(d) == {d.history[i].url : i \in 1..Len(d.history)}

\* C4: Clear is a watermark: no pending item and no history item of the
\* projection has a queued id at or below the id of the latest cleared
\* event, whatever later events reference such an id; tracks queued after
\* the clear are still projected.
C4_ClearIsWatermark ==
    /\ \A q \in PendingIds(data) \cup HistoryIds(data) : q > LatestClearedId(flog)
    /\ \A q \in QueuedIds(flog) :
          q > LatestClearedId(flog) => q \in PendingIds(data) \cup HistoryIds(data)
                                        \/ Some(q) = CurrentPlaying(flog)

\* a track queued before a clear is referenced by a played event after it,
\* and a track queued after the clear is pending
C4_Witness ==
    \E i, j, k \in 1..Len(flog) :
        /\ flog[i].type = "queued" /\ flog[j].type = "cleared" /\ i < j /\ j < k
        /\ flog[k].type = "played" /\ flog[k].ref = Some(flog[i].id)
        /\ \E q \in PendingIds(data) : q > flog[j].id

\* C5: Skip freshness: the skip check for (q, w) reports true exactly when
\* the log holds, after its last cleared line, a skip event referencing q
\* whose own id is greater than w.
C5_SkipFreshness ==
    \A q \in 1..MaxLogLen, w \in Watermarks :
        skipres[q][w] <=>
            \E i \in (LastClearedPos(flog) + 1)..Len(flog) :
                flog[i].type = "skip" /\ flog[i].ref = Some(q) /\ flog[i].id > w

\* a skip for q follows a playing for q: fresh against the playing event's
\* id, stale against a watermark at or above the skip's own id
C5_Witness ==
    \E i, j \in 1..Len(flog) :
        /\ i < j /\ flog[i].type = "playing" /\ flog[j].type = "skip"
        /\ flog[i].ref = flog[j].ref
        /\ skipres[Unwrap(flog[j].ref)][flog[i].id]
        /\ ~skipres[Unwrap(flog[j].ref)][flog[j].id]

\* C6: a queued id above the clear watermark is pending exactly when no
\* played/failed event references it and it is not the now-playing id, and
\* in history exactly when a played/failed event references it; no id is in
\* both, and no id appears twice in either list.
C6_PendingHistoryPartition ==
    /\ \A q \in QueuedIds(flog) :
          q > LatestClearedId(flog) =>
            /\ q \in PendingIds(data) <=>
                  (~Concluded(flog, q) /\ Some(q) # CurrentPlaying(flog))
            /\ q \in HistoryIds(data) <=> Concluded(flog, q)
    /\ PendingIds(data) \cap HistoryIds(data) = {}
    /\ Cardinality(PendingIds(data)) = Len(data.items)
    /\ Cardinality(HistoryIds(data)) = Len(data.history)

\* one track concluded, one now playing, one pending
C6_Witness ==
    /\ Len(data.history) >= 1
    /\ Len(data.items) >= 1
    /\ IsSome(data.now_playing)
    /\ \E q \in HistoryIds(data) : Refers(flog, "failed", q)

----------------------------------------------------------------------------
(* SpecAppend: participants run append_event_with_retry against the remote *)
(* file.  The file's version token (the blob sha) is a hash of its content;*)
(* the store accepts a PUT that names the current sha, answers HTTP 409 to *)
(* one that names another sha, creates the file on a PUT without sha when  *)
(* there is none, and answers HTTP 422 to a PUT without sha over a file.   *)

Writers == {"a", "b"}

\* appends one participant starts
MaxCalls == 2

\* the blob sha of a content: a collision-free hash
ShaOf(content) == content

InitialLogs == {<<>>, <<EvQueued(1)>>, <<EvQueued(1), EvCleared(2)>>}

IsPrefix(s, t) == Len(s) <= Len(t) /\ SubSeq(t, 1, Len(s)) = s

\* read_repo_file: Ok((content, Some(sha))) of an existing file the store
\* serves; any failure is an Err
ReadRepoFile(st, reachable) ==
    IF reachable /\ st.exists
    THEN Some([content |-> st.content, sha |-> Some(ShaOf(st.content))])
    ELSE None

\* line 1520: read_repo_file(cfg).unwrap_or((String::new(), None))
ReadOrEmpty(r) == IF IsSome(r) THEN Unwrap(r) ELSE [content |-> <<>>, sha |-> None]

\* mutant: the +1 is forgotten
NextId_NoIncrement(content) == MaxId(content)

\* lines 1521-1527
NextId(content) == MaxId(content) + 1

\* mutant: the new content is the new line alone
NewContent_DropsOld(content, event) == <<event>>

\* lines 1529-1534: the content read, then the new line
NewContent(content, event) == Append(content, event)

\* what the store answers to the PUT of write_repo_file
StoreAnswer(st, sha) ==
    IF IsSome(sha)
    THEN IF st.exists /\ ShaOf(st.content) = Unwrap(sha) THEN "ok" ELSE "HTTP 409"
    ELSE IF st.exists THEN "HTTP 422" ELSE "ok"

Contains409(err) == err = "HTTP 409"

\* mutant: every failure of the first write is retried
ShouldRetry_AnyError(attempt, err) == attempt = 0

\* line 1541
ShouldRetry(attempt, err) == attempt = 0 /\ Contains409(err)

IdleCall ==
    [pc |-> "idle", attempt |-> 0, content |-> <<>>, sha |-> None, next_id |-> 0,
     calls |-> 0, result |-> None, trace |-> <<>>, first |-> <<>>]

\* a participant calls one of the append_*_event functions
BeginAppend(p) ==
    /\ ap[p].pc = "idle"
    /\ ap[p].calls < MaxCalls
    /\ ap' = [ap EXCEPT ![p] = [IdleCall EXCEPT !.pc = "read", !.calls = ap[p].calls + 1]]
    /\ UNCHANGED <<store, hist, varsFold, varsEngine, varsRest>>

\* lines 1520-1527 of one attempt
ReadStep(p, reachable) ==
    /\ ap[p].pc = "read"
    /\ LET r == ReadOrEmpty(ReadRepoFile(store, reachable)) IN
       ap' = [ap EXCEPT ![p].pc = "write",
                        ![p].content = r.content,
                        ![p].sha = r.sha,
                        ![p].next_id = NextId(r.content),
                        ![p].first = IF ap[p].attempt = 0 THEN r.content ELSE @,
                        ![p].trace = Append(@, IF IsSome(r.sha) THEN "read" ELSE "read failed")]
    /\ UNCHANGED <<store, hist, varsFold, varsEngine, varsRest>>

ReadOk(p) == store.exists /\ ReadStep(p, TRUE)

ReadFail(p) == ReadStep(p, FALSE)

\* lines 1540-1545: the Err arm of the match on write_repo_file
WriteFailed(p, err) ==
    /\ ap' = [ap EXCEPT ![p].trace = Append(@, err),
                        ![p].pc = IF ShouldRetry(ap[p].attempt, err) THEN "read" ELSE "idle",
                        ![p].attempt = IF ShouldRetry(ap[p].attempt, err) THEN 1 ELSE @,
                        ![p].result = IF ShouldRetry(ap[p].attempt, err)
                                      THEN None ELSE Some([ok |-> FALSE, id |-> 0])]
    /\ UNCHANGED <<store, hist, varsFold, varsEngine, varsRest>>

\* lines 1528-1536: the store accepts the PUT
WriteOk(p) ==
    /\ ap[p].pc = "write"
    /\ StoreAnswer(store, ap[p].sha) = "ok"
    /\ LET new == NewContent(ap[p].content, EvQueued(ap[p].next_id)) IN
       /\ store' = [exists |-> TRUE, content |-> new]
       /\ hist' = Append(hist, [by |-> p, call |-> ap[p].calls, read |-> ap[p].content,
                                before |-> store.content, after |-> new,
                                id |-> ap[p].next_id])
    /\ ap' = [ap EXCEPT ![p].pc = "state", ![p].trace = Append(@, "ok")]
    /\ UNCHANGED <<varsFold, varsEngine, varsRest>>

\* the store answers 409: another writer changed the file since the read
WriteConflict(p) ==
    /\ ap[p].pc = "write"
    /\ StoreAnswer(store, ap[p].sha) = "HTTP 409"
    /\ WriteFailed(p, "HTTP 409")

\* the store answers 422: no sha was supplied for a file that exists
WriteRejected(p) ==
    /\ ap[p].pc = "write"
    /\ StoreAnswer(store, ap[p].sha) = "HTTP 422"
    /\ WriteFailed(p, "HTTP 422")

\* the PUT does not reach the store (temp file, gh or network failure)
WriteUnreachable(p) ==
    /\ ap[p].pc = "write"
    /\ WriteFailed(p, "unreachable")

\* lines 1537-1538: write_shared_state(..)? then return Ok(next_id)
StateStep(p, ok) ==
    /\ ap[p].pc = "state"
    /\ ap' = [ap EXCEPT ![p].pc = "idle",
                        ![p].result = Some([ok |-> ok, id |-> IF ok THEN ap[p].next_id ELSE 0])]
    /\ UNCHANGED <<store, hist, varsFold, varsEngine, varsRest>>

StateOk(p) == StateStep(p, TRUE)

StateFail(p) == StateStep(p, FALSE)

InitAppend ==
    /\ store \in {[exists |-> FALSE, content |-> <<>>]}
                 \cup {[exists |-> TRUE, content |-> c] : c \in InitialLogs}
    /\ ap = [p \in Writers |-> IdleCall]
    /\ hist = <<>>
    /\ flog = <<>> /\ data = <<>> /\ skipres = <<>>
    /\ elog = <<>> /\ eng = <<>> /\ lp = <<>> /\ sync = <<>> /\ env = <<>>
    /\ RestIdle

NextAppend ==
    \E p \in Writers :
        \/ BeginAppend(p)
        \/ ReadOk(p)
        \/ ReadFail(p)
        \/ WriteOk(p)
        \/ WriteConflict(p)
        \/ WriteRejected(p)
        \/ WriteUnreachable(p)
        \/ StateOk(p)
        \/ StateFail(p)

SpecAppend == InitAppend /\ [][NextAppend]_vars

StrictlyIncreasingIds(content) ==
    \A i, j \in 1..Len(content) : i < j => content[i].id < content[j].id

\* the content of the store before the first accepted write
InitialContent == IF hist = <<>> THEN store.content ELSE hist[1].before

IsRead(x) == x \in {"read", "read failed"}

\* C1: every accepted write added exactly one event, whose id is 1 + the
\* maximum id of the log the writer read; the ids of the log are strictly
\* increasing in line order (hence distinct); the N accepted appends carry
\* the ids previous_max+1 .. previous_max+N; and an append that returned
\* Ok(id) is the one accepted write of its call, with that id.
C1_MonotonicIds ==
    /\ \A i \in 1..Len(hist) :
          /\ Len(hist[i].after) = Len(hist[i].before) + 1
          /\ SubSeq(hist[i].after, 1, Len(hist[i].before)) = hist[i].before
          /\ hist[i].after[Len(hist[i].after)].id = 1 + MaxId(hist[i].read)
          /\ hist[i].id = MaxId(InitialContent) + i
    /\ StrictlyIncreasingIds(store.content)
    /\ \A p \in Writers :
          (IsSome(ap[p].result) /\ Unwrap(ap[p].result).ok) =>
              /\ \E i \in 1..Len(hist) :
                    /\ hist[i].by = p /\ hist[i].call = ap[p].calls
                    /\ hist[i].id = Unwrap(ap[p].result).id
                    /\ store.content[Len(hist[i].after)].id = hist[i].id
              /\ Cardinality({i \in 1..Len(hist) :
                                 hist[i].by = p /\ hist[i].call = ap[p].calls}) = 1

\* an append lost the race, retried and succeeded, on a log other writers
\* had extended
C1_Witness ==
    \E p \in Writers :
        /\ ap[p].trace = <<"read", "HTTP 409", "read", "ok">>
        /\ IsSome(ap[p].result) /\ Unwrap(ap[p].result).ok
        /\ Len(hist) >= 3
        /\ InitialContent # <<>>

\* C2: the log only grows: for every write the store accepted, the content
\* before it is a proper prefix of the content after it, and the content held
\* now extends every content ever held; a write built from a failed (empty)
\* read never lands on a file that has content.
C2_LogOnlyGrows ==
    /\ \A i \in 1..Len(hist) :
          /\ IsPrefix(hist[i].before, hist[i].after)
          /\ hist[i].before # hist[i].after
          /\ IsPrefix(hist[i].after, store.content)
    /\ IsPrefix(InitialContent, store.content)

\* two participants' appends interleaved, and one append whose read failed
\* tried to write over the existing log and was turned down
C2_Witness ==
    /\ \E i, j \in 1..Len(hist) : hist[i].by # hist[j].by
    /\ \E p \in Writers :
          /\ ap[p].trace = <<"read failed", "HTTP 422">>
          /\ store.content # <<>>

\* C3: one call makes at most two write attempts, each after a read of its
\* own; a second attempt is made only when the first write failed with a
\* version conflict, and it starts from a fresh read; a non-conflict failure
\* of the first write, and any failure of the second, ends the call with an
\* error.
C3_AtMostOneRetry ==
    \A p \in Writers :
        LET t == ap[p].trace
            failed == ap[p].pc = "idle" /\ IsSome(ap[p].result) /\ ~Unwrap(ap[p].result).ok
        IN
        /\ Len(t) <= 4
        /\ \A i \in 1..Len(t) : IsRead(t[i]) <=> i \in {1, 3}
        /\ Len(t) >= 3 => t[2] = "HTTP 409"
        /\ (Len(t) = 2 /\ t[2] = "HTTP 409") => (ap[p].pc = "read" /\ ap[p].attempt = 1)
        /\ (Len(t) = 2 /\ t[2] \notin {"ok", "HTTP 409"}) => failed
        /\ (Len(t) = 4 /\ t[4] # "ok") => failed
        /\ (Len(t) >= 3 /\ t[3] = "read") =>
              (ap[p].content # ap[p].first /\ IsPrefix(ap[p].first, ap[p].content))

\* a call lost the race twice, to two writes of the other participant, and
\* returned an error after its second write attempt
C3_Witness ==
    \E p \in Writers :
        /\ ap[p].trace = <<"read", "HTTP 409", "read", "HTTP 409">>
        /\ ap[p].pc = "idle"
        /\ IsSome(ap[p].result) /\ ~Unwrap(ap[p].result).ok
        /\ Len(hist) >= 2

----------------------------------------------------------------------------
(* SpecEngine: one YouTubePipeline with a shared queue, the playback loop  *)
(* start() spawns, the queue-refresh task the loop spawns in push mode, and*)
(* the participants that append to the shared log.                         *)
(*                                                                         *)
(* An append of the engine is one step here: by C1-C3 a call of            *)
(* append_event_with_retry either commits one event with the next id at one*)
(* point, or commits nothing and returns an error; it may also commit and  *)
(* still return an error, when write_shared_state fails.                   *)
(* The pipeline's operations are called with the pipeline mutex held       *)
(* (lib.rs: pipeline.lock()), so each is one step; the loop and the refresh*)
(* task run between them.                                                  *)

\* lines of the shared log
MaxELog == 4

\* queued events the participants append
MaxQueued == 2

\* In this specification data is kept equal to FetchSharedQueueData(elog):
\* it is what fetch_shared_queue_data returns to whoever reads the log now.
ReadProjection == data

\* the shared log becomes content
LogBecomes(content) ==
    /\ elog' = content
    /\ data' = IF content = elog THEN data ELSE FetchSharedQueueData(content)

\* what a call of append_event_with_retry can come to (lines 1515-1549): Ok,
\* an error with nothing committed, or an error of write_shared_state after
\* the event was committed
AppendOutcomes == {"ok", "failed", "committed, state write failed"}

Committed(out) == out # "failed"

\* the log after an append with outcome out
Appended(content, ev, out) == IF Committed(out) THEN Append(content, ev) ELSE content

\* what the append returns
AppendResult(content, out) == IF out = "ok" THEN Some(NextId(content)) ELSE None

\* the outcomes the store and the disk can give now: any, unless they are
\* taken to be reliable; a full log takes no more events
Allowed(out) ==
    /\ Committed(out) => Len(elog) < env.max_log
    /\ env.reliable => out = "ok"

\* the locals of run_playback_loop, and whether skip_rx holds an unseen signal
NewLoop ==
    [pc |-> "top", changed |-> FALSE, track |-> None, playing_event_id |-> None]

\* the refresh task exists only with a shared queue and an update channel
NewSync(webhook) == [pc |-> IF webhook THEN "fetch" ELSE "none", items |-> <<>>, notified |-> FALSE]

Alive(i) == lp[i].pc # "ended"

\* the log changed: the notifier signals the refresh tasks
Notify(sy) == [i \in 1..Len(sy) |-> IF sy[i].pc \in {"none", "ended"} THEN sy[i]
                                    ELSE [sy[i] EXCEPT !.notified = TRUE]]

\* mutant: nothing is sent on the control channel
SendSkip_Nothing(loops, tx) == loops

\* watch::Sender::send(true) on the sender the pipeline holds; the receiver
\* is the one of loop Unwrap(tx), or dropped (0)
SendSkip(loops, tx) ==
    IF IsSome(tx) /\ Unwrap(tx) \in 1..Len(loops) /\ loops[Unwrap(tx)].pc # "ended"
    THEN [loops EXCEPT ![Unwrap(tx)].changed = TRUE]
    ELSE loops

\* mutant: the loop_running test is missing
MaySpawn_Always(loop_running) == TRUE

\* lines 577-578, called inside the runtime
MaySpawn(loop_running) == ~loop_running

\* YouTubePipeline::start
Start ==
    /\ IF MaySpawn(eng.loop_running)
       THEN /\ lp' = Append(lp, NewLoop)
            /\ sync' = Append(sync, NewSync(eng.use_webhook_updates))
            /\ eng' = [eng EXCEPT !.active = TRUE, !.loop_running = TRUE,
                                  !.skip_tx = Some(Len(lp) + 1)]
       ELSE /\ eng' = [eng EXCEPT !.active = TRUE, !.skip_tx = Some(0)]
            /\ UNCHANGED <<lp, sync>>
    /\ UNCHANGED <<elog, data, env, varsAppend, flog, skipres, varsRest>>

\* YouTubePipeline::stop
Stop ==
    /\ eng' = [eng EXCEPT !.active = FALSE, !.status = "Idle", !.queue = <<>>]
    /\ lp' = SendSkip(lp, eng.skip_tx)
    /\ UNCHANGED <<elog, data, sync, env, varsAppend, flog, skipres, varsRest>>

\* YouTubePipeline::queue_track with a shared queue, by any participant: the
\* append of a queued event (a failed append changes nothing)
QueueTrack ==
    /\ Len(elog) < env.max_log
    /\ Cardinality(QueuedIds(elog)) < MaxQueued
    /\ LogBecomes(Append(elog, EvQueued(NextId(elog))))
    /\ sync' = Notify(sync)
    /\ UNCHANGED <<eng, lp, env, varsAppend, flog, skipres, varsRest>>

\* mutant: the local signal is sent whatever the read and the append returned
SkipSignals_Always(readOk, now, out) == TRUE

\* lines 668-672: the ? on fetch_shared_queue_data and on append_skip_event:
\* lines 675-679 are reached only when neither returned Err
SkipSignals(readOk, now, out) == readOk /\ (IsSome(now) => out = "ok")

\* YouTubePipeline::skip_track with a shared queue: the projection is read,
\* a skip event is appended for the now-playing id, and only when neither
\* failed the local signal is sent
SkipTrack(readOk, out) ==
    LET d   == ReadProjection
        now == IF readOk /\ IsSome(d.now_playing) THEN Unwrap(d.now_playing).queued_id ELSE None
    IN
    /\ IF IsSome(now) THEN Allowed(out) ELSE out = "ok"
    /\ LogBecomes(IF IsSome(now) THEN Appended(elog, EvRef(NextId(elog), "skip", Unwrap(now)), out)
                   ELSE elog)
    /\ sync' = IF elog' # elog THEN Notify(sync) ELSE sync
    /\ lp' = IF SkipSignals(readOk, now, out) THEN SendSkip(lp, eng.skip_tx) ELSE lp
    /\ UNCHANGED <<eng, env, varsAppend, flog, skipres, varsRest>>

SkipTrackStep == \E readOk \in BOOLEAN, out \in AppendOutcomes : SkipTrack(readOk, out)

\* cleared events in the shared log
MaxCleared == 1

ClearedCount(content) == Cardinality({k \in 1..Len(content) : content[k].type = "cleared"})

\* the outcome out is possible for an append to content
AllowedOn(content, out) ==
    /\ Committed(out) => Len(content) < env.max_log
    /\ env.reliable => out = "ok"

\* lines 702-709: the skip event for the now-playing track; an Err of
\* fetch_shared_queue_data or of append_skip_event is dropped
ClearSkipped(content, now, outSkip) ==
    IF IsSome(now)
    THEN Appended(content, EvRef(NextId(content), "skip", Unwrap(now)), outSkip)
    ELSE content

\* YouTubePipeline::clear_shared_queue with a shared queue: the projection
\* is read, a skip event is appended for the now-playing id, then the
\* cleared event; the local signal is sent when that append returned Ok
ClearQueue(readOk, outSkip, outClear) ==
    LET d    == ReadProjection
        now  == IF readOk /\ IsSome(d.now_playing) THEN Unwrap(d.now_playing).queued_id ELSE None
        log1 == ClearSkipped(elog, now, outSkip)
        log2 == Appended(log1, EvCleared(NextId(log1)), outClear)
    IN
    /\ ClearedCount(elog) < MaxCleared
    /\ IF IsSome(now) THEN AllowedOn(elog, outSkip) ELSE outSkip = "ok"
    /\ AllowedOn(log1, outClear)
    /\ LogBecomes(log2)
    /\ sync' = IF log2 # elog THEN Notify(sync) ELSE sync
    /\ lp' = IF outClear = "ok" THEN SendSkip(lp, eng.skip_tx) ELSE lp
    /\ UNCHANGED <<eng, env, varsAppend, flog, skipres, varsRest>>

ClearQueueStep ==
    \E readOk \in BOOLEAN, outSkip, outClear \in AppendOutcomes :
        ClearQueue(readOk, outSkip, outClear)

\* ---- the queue-refresh task (lines 755-811)
\* The task is at "fetch" (in fetch_shared_queue_data), at "set" (awaiting
\* the prefetch, with the items it fetched), at "recv" (in rx.recv()) or
\* "ended".

\* lines 783-785: the active test that follows a round
AfterRound == IF eng.active THEN "recv" ELSE "ended"

\* lines 762 / 789: fetch_shared_queue_data; on an error the round is over
SyncFetch(i, ok) ==
    /\ sync[i].pc = "fetch"
    /\ sync' = [sync EXCEPT ![i].pc = IF ok THEN "set" ELSE AfterRound,
                            ![i].items = IF ok THEN ReadProjection.items ELSE <<>>]
    /\ UNCHANGED <<elog, data, eng, lp, env, varsAppend, flog, skipres, varsRest>>

SyncFetchStep(i) == \E ok \in BOOLEAN : SyncFetch(i, ok)

\* lines 770-772 / 797-799: *q = data.items, and the round is over
SyncSet(i) ==
    /\ sync[i].pc = "set"
    /\ eng' = [eng EXCEPT !.queue = sync[i].items]
    /\ sync' = [sync EXCEPT ![i].pc = AfterRound, ![i].items = <<>>]
    /\ UNCHANGED <<elog, data, lp, env, varsAppend, flog, skipres, varsRest>>

\* lines 786-788: rx.recv() returns
SyncRecv(i) ==
    /\ sync[i].pc = "recv"
    /\ sync[i].notified
    /\ sync' = [sync EXCEPT ![i].pc = "fetch", ![i].notified = FALSE]
    /\ UNCHANGED <<elog, data, eng, lp, env, varsAppend, flog, skipres, varsRest>>

\* ---- run_playback_loop (lines 813-1088)
\* The loop is at "top" (before line 815), at "resolve" (awaiting
\* fetch_audio_streaming, line 874), at "stream" (in the streaming loop, lines
\* 985-1058) or "ended".  A step runs the loop from one of these to the next.

\* mutant: the loop never refreshes its pending list from the log
Polled_NoRefresh(readOk) == eng.queue

\* lines 819-841: without push updates an empty pending list is refreshed
\* from the log (a failed read leaves it as it is)
Polled(readOk) ==
    IF ~eng.use_webhook_updates /\ eng.queue = <<>> /\ readOk
    THEN ReadProjection.items
    ELSE eng.queue

\* lines 815-870: the active test, the refresh, the pop
LoopTop(i, readOk) ==
    /\ lp[i].pc = "top"
    /\ IF ~eng.active
       THEN /\ lp' = [lp EXCEPT ![i].pc = "ended"]
            /\ eng' = [eng EXCEPT !.status = "Idle"]
       ELSE IF Polled(readOk) = <<>>
       THEN /\ lp' = lp
            /\ eng' = eng
       ELSE /\ lp' = [lp EXCEPT ![i] = [NewLoop EXCEPT !.pc = "resolve",
                                                       !.changed = lp[i].changed,
                                                       !.track = Head(Polled(readOk)).queued_id]]
            /\ eng' = [eng EXCEPT !.queue = Tail(Polled(readOk)), !.status = "Loading"]
    /\ UNCHANGED <<elog, data, sync, env, varsAppend, flog, skipres, varsRest>>

LoopTopStep(i) == \E readOk \in BOOLEAN : LoopTop(i, readOk)

\* the loop calls the append of an event of type t for its track; an error
\* is only logged (lines 881-885, 899-905, 1072-1076)
LoopAppend(i, t, out) ==
    /\ Allowed(out)
    /\ LogBecomes(Appended(elog, EvRef(NextId(elog), t, Unwrap(lp[i].track)), out))
    /\ sync' = IF elog' # elog THEN Notify(sync) ELSE sync
    /\ env' = env

\* lines 879-887: resolution failed: append_failed_event, then continue
LoopResolveFailed(i, out) ==
    /\ lp[i].pc = "resolve"
    /\ LoopAppend(i, "failed", out)
    /\ lp' = [lp EXCEPT ![i].pc = "top", ![i].track = None]
    /\ UNCHANGED <<eng, varsAppend, flog, skipres, varsRest>>

LoopResolveFailedStep(i) == \E out \in AppendOutcomes : LoopResolveFailed(i, out)

\* lines 875-905: resolved: status Playing, append_playing_event, its id
\* kept as the skip watermark
LoopResolved(i, out) ==
    /\ lp[i].pc = "resolve"
    /\ LoopAppend(i, "playing", out)
    /\ lp' = [lp EXCEPT ![i].pc = "stream",
                        ![i].playing_event_id = AppendResult(elog, out)]
    /\ eng' = [eng EXCEPT !.status = "Playing"]
    /\ UNCHANGED <<varsAppend, flog, skipres, varsRest>>

LoopResolvedStep(i) == \E out \in AppendOutcomes : LoopResolved(i, out)

\* watch::Receiver::has_changed().unwrap_or(false): an error (the sender was
\* replaced by a later start()) counts as no signal
HasChanged(i) == eng.skip_tx = Some(i) /\ lp[i].changed

\* the streaming loop is left (seen: through has_changed, which consumes the
\* signal), then lines 1060-1080: append_played_event, skipped or not
StreamLeft(i, seen, out) ==
    /\ lp[i].pc = "stream"
    /\ LoopAppend(i, "played", out)
    /\ lp' = [lp EXCEPT ![i].pc = "top", ![i].track = None,
                        ![i].playing_event_id = None,
                        ![i].changed = IF seen THEN FALSE ELSE @]
    /\ UNCHANGED <<eng, varsAppend, flog, skipres, varsRest>>

\* lines 987-992: the local skip/stop signal
StreamSignal(i) ==
    /\ HasChanged(i)
    /\ \E out \in AppendOutcomes : StreamLeft(i, TRUE, out)

\* lines 995-1010: the periodic check of the shared skip events
StreamRemoteSkip(i) ==
    /\ lp[i].pc = "stream"
    /\ ~HasChanged(i)
    /\ IsSome(lp[i].playing_event_id)
    /\ SkipRequestedIn(ReadProjection, Unwrap(lp[i].track), Unwrap(lp[i].playing_event_id))
    /\ \E out \in AppendOutcomes : StreamLeft(i, FALSE, out)

\* lines 1012-1016: the active flag
StreamInactive(i) ==
    /\ ~HasChanged(i)
    /\ ~eng.active
    /\ \E out \in AppendOutcomes : StreamLeft(i, FALSE, out)

\* lines 1019-1026 and 1051-1057: end of stream, a read error, or the
\* consumer of the PCM channel is gone: not skipped
StreamEnded(i) ==
    \E out \in AppendOutcomes : StreamLeft(i, FALSE, out)

EngineStatesWith(reliable, max_log) ==
    /\ elog = <<>>
    /\ data = FetchSharedQueueData(<<>>)
    /\ eng \in {[active |-> FALSE, skip_tx |-> None, loop_running |-> FALSE,
                 queue |-> <<>>, status |-> "Idle", use_webhook_updates |-> w] :
                w \in BOOLEAN}
    /\ lp = <<>>
    /\ sync = <<>>
    /\ env = [reliable |-> reliable, max_log |-> max_log, shared |-> TRUE]
    /\ store = <<>> /\ ap = <<>> /\ hist = <<>>
    /\ flog = <<>> /\ skipres = <<>>
    /\ RestIdle

EngineStates(reliable) == EngineStatesWith(reliable, MaxELog)

\* the engine after YouTubePipeline::new / with_shared_queue_and_updates
InitEngine == EngineStates(FALSE)

\* the same with a store and a disk that never fail
InitEngineReliable == EngineStates(TRUE)

NextEngine ==
    \/ Start
    \/ Stop
    \/ QueueTrack
    \/ SkipTrackStep
    \/ \E i \in 1..Len(lp) :
          \/ LoopTopStep(i)
          \/ LoopResolveFailedStep(i)
          \/ LoopResolvedStep(i)
          \/ StreamSignal(i)
          \/ StreamRemoteSkip(i)
          \/ StreamInactive(i)
          \/ StreamEnded(i)
          \/ SyncFetchStep(i)
          \/ SyncSet(i)
          \/ SyncRecv(i)

SpecEngine == InitEngine /\ [][NextEngine]_vars

SpecEngineReliable == InitEngineReliable /\ [][NextEngine]_vars

\* ---- claims about the engine

\* the event at position k of the log is of type t and references queued id q
IsEvent(k, t, q) == elog[k].type = t /\ elog[k].ref = q

\* the played event at position k closes an attempt that recorded its
\* playing event: a playing event for the same id before it, with no played
\* or failed event for that id between the two
PlayedFollowsPlaying(k) ==
    \E j \in 1..(k - 1) :
        /\ IsEvent(j, "playing", elog[k].ref)
        /\ \A m \in (j + 1)..(k - 1) : ~IsEvent(m, "played", elog[k].ref)
                                       /\ ~IsEvent(m, "failed", elog[k].ref)

\* no played or failed event for the same id precedes the playing event at
\* position k
NoConclusionBefore(k) ==
    \A j \in 1..(k - 1) : ~IsEvent(j, "played", elog[k].ref)
                          /\ ~IsEvent(j, "failed", elog[k].ref)

\* C7: in every reachable log each played event referencing q is preceded by
\* the playing event of the same attempt, and no playing event referencing q
\* comes after a played or failed event referencing q.  Checked with a store
\* that never fails; the refresh task puts a track back into the pending list
\* while it is in flight, and the loop plays it again.
C7_LifecycleOrdering ==
    \A k \in 1..Len(elog) :
        /\ elog[k].type = "played" => PlayedFollowsPlaying(k)
        /\ elog[k].type = "playing" => NoConclusionBefore(k)

\* loop i leaves the streaming loop in this step
LeavesStream(i) == lp[i].pc = "stream" /\ lp'[i].pc # "stream"

\* C8: every attempt that got past resolution ends with exactly one played
\* event referencing its track: the step in which a loop leaves the streaming
\* loop appends that event, whatever made it leave.
C8_ExactlyOnePlayed ==
    [][\A i \in 1..Len(lp) :
          LeavesStream(i) =>
              elog' = Append(elog, EvRef(NextId(elog), "played", Unwrap(lp[i].track)))]_vars

\* the resolution of loop i's track fails in this step
ResolutionFails(i) == lp[i].pc = "resolve" /\ lp'[i].pc \notin {"resolve", "stream"}

\* C9: when the resolution of a popped track fails, a failed event
\* referencing its id is appended, nothing else is, and the loop is back at
\* its top to take the next item.
C9_ResolutionFailureRecorded ==
    [][\A i \in 1..Len(lp) :
          ResolutionFails(i) =>
              /\ elog' = Append(elog, EvRef(NextId(elog), "failed", Unwrap(lp[i].track)))
              /\ lp'[i].pc = "top"]_vars

\* the playback loop tasks that exist
LoopTasks == {i \in 1..Len(lp) : Alive(i)}

\* C10: whatever the sequence of start() and stop() calls, at most one
\* playback loop task exists.
C10_AtMostOneLoop == Cardinality(LoopTasks) <= 1

\* start() was called again while the loop spawned by an earlier start() is
\* in the middle of a track, after a stop() in between
C10_Witness ==
    /\ LoopTasks = {1}
    /\ lp[1].pc = "stream"
    /\ lp[1].changed
    /\ eng.active
    /\ eng.skip_tx = Some(0)

\* C11: after start() has returned, and until stop() is called, a playback
\* loop task exists, also when the start() follows a stop() whose loop has
\* already exited.  (active is set by start() and reset only by stop().)
C11_StartSpawnsLoop == eng.active => LoopTasks # {}

\* ---- the streaming loop and the publish channel (lines 1051-1057)

\* line 1055: pcm_sender.send(bytes).await on the bounded channel (capacity
\* 1024, line 524) when the channel is full and its receiver is held by a
\* consumer that does not drain it: the loop waits in send, where it tests
\* neither skip_rx, nor the shared skip events, nor the active flag
StreamBlocks(i) ==
    /\ lp[i].pc = "stream"
    /\ lp' = [lp EXCEPT ![i].pc = "send"]
    /\ UNCHANGED <<elog, data, eng, sync, env, varsAppend, flog, skipres, varsRest>>

\* lines 1055-1057: the receiver is dropped while the loop waits in send:
\* send returns Err, the streaming loop is left, append_played_event
StreamSendFails(i) ==
    /\ lp[i].pc = "send"
    /\ \E out \in AppendOutcomes : LoopAppend(i, "played", out)
    /\ lp' = [lp EXCEPT ![i].pc = "top", ![i].track = None,
                        ![i].playing_event_id = None]
    /\ UNCHANGED <<eng, varsAppend, flog, skipres, varsRest>>

\* the steps the loop takes by itself once the runtime schedules it: the
\* resolver answers and the stream ends; the consumer of the publish channel
\* is not among them
LoopProgress ==
    \E i \in 1..Len(lp) :
        \/ LoopTopStep(i)
        \/ LoopResolveFailedStep(i)
        \/ LoopResolvedStep(i)
        \/ StreamSignal(i)
        \/ StreamRemoteSkip(i)
        \/ StreamInactive(i)
        \/ StreamEnded(i)

NextEngineLive ==
    \/ NextEngine
    \/ \E i \in 1..Len(lp) : StreamBlocks(i) \/ StreamSendFails(i)

\* the engine with a consumer that may stop draining, the loop task being
\* scheduled fairly
SpecEngineLive == InitEngine /\ [][NextEngineLive]_vars /\ WF_vars(LoopProgress)

\* C12: after stop() with no later start() the playback loop eventually
\* exits and the status becomes Idle and stays Idle, whatever the consumer of
\* the publish channel does.
C12_StopEndsLoop ==
    <>[](~eng.active) => <>[](LoopTasks = {} /\ eng.status = "Idle")

\* the same for an engine whose loop is never left waiting in send
C12_StopEndsLoopDrained ==
    <>[](~eng.active) =>
        \/ <>[](LoopTasks = {} /\ eng.status = "Idle")
        \/ <>[](\E i \in 1..Len(lp) : lp[i].pc = "send")

NowPlayingId == IF IsSome(ReadProjection.now_playing)
                THEN Unwrap(ReadProjection.now_playing).queued_id
                ELSE None

\* C14: with a now-playing track in the shared log, a call of skip_track()
\* that sends the local signal has committed, before it, a skip event that
\* references the now-playing queued id.
C14_SkipBeforeSignal ==
    [][(SkipTrackStep /\ IsSome(NowPlayingId) /\ lp' # lp) =>
           elog' = Append(elog, EvRef(NextId(elog), "skip", Unwrap(NowPlayingId)))]_vars

\* skip_track() was called for the streaming track: its skip event is the
\* last line of the log and the loop has the signal to see
C14_Witness ==
    /\ eng.active
    /\ elog # <<>>
    /\ \E i \in LoopTasks :
          /\ lp[i].pc = "stream"
          /\ eng.skip_tx = Some(i)
          /\ lp[i].changed
          /\ IsEvent(Len(elog), "skip", lp[i].track)

\* ---- the engine with clear_shared_queue

NextEngineClear == NextEngine \/ ClearQueueStep

SpecEngineClear == InitEngine /\ [][NextEngineClear]_vars

\* this step of clear_shared_queue commits a cleared event
ClearCommits == ClearQueueStep /\ elog' # elog /\ elog'[Len(elog')].type = "cleared"

\* the log with the two events of a clear made while now is playing
SkipThenCleared(content, now) ==
    Append(Append(content, EvRef(NextId(content), "skip", now)),
           EvCleared(NextId(content) + 1))

\* the projection of a log whose last event is cleared is empty
ClearedProjectionEmpty ==
    (elog # <<>> /\ elog[Len(elog)].type = "cleared") =>
        /\ ReadProjection.items = <<>>
        /\ ReadProjection.now_playing = None
        /\ ReadProjection.history = <<>>

\* C15: a clear_queue() that commits its cleared event while a track is now
\* playing has committed the skip event for that track just before it (so the
\* skip has the smaller id), and while cleared is the last event of the log
\* the projection has no pending item, no now-playing and no history.
C15_ClearSkipsThenClears ==
    /\ [][(ClearCommits /\ IsSome(NowPlayingId)) =>
              elog' = SkipThenCleared(elog, Unwrap(NowPlayingId))]_vars
    /\ []ClearedProjectionEmpty

\* ---- the engine left alone: no skip, no clear, no stop, a store that does
\* not fail, resolutions that succeed and streams that end by themselves

\* lines of the shared log in this scenario: two tracks queued, played and
\* concluded
MaxQuietLog == 6

InitEngineQuiet == EngineStatesWith(TRUE, MaxQuietLog)

NextEngineQuiet ==
    \/ Start
    \/ QueueTrack
    \/ \E i \in 1..Len(lp) :
          \/ LoopTopStep(i)
          \/ LoopResolvedStep(i)
          \/ StreamEnded(i)
          \/ SyncFetchStep(i)
          \/ SyncSet(i)
          \/ SyncRecv(i)

SpecEngineQuiet == InitEngineQuiet /\ [][NextEngineQuiet]_vars

IsQueued(ev) == ev.type = "queued"

IsLifecycle(ev) == ev.type \in {"playing", "played", "failed"}

\* the ids of the queued events of the log, in log order
QueuedInOrder(content) ==
    LET q == SelectSeq(content, IsQueued) IN [k \in 1..Len(q) |-> q[k].id]

\* the playing, played and failed events of the log, in log order
LifecycleOf(content) ==
    LET l == SelectSeq(content, IsLifecycle) IN [k \in 1..Len(l) |-> <<l[k].type, l[k].ref>>]

\* playing then played for each queued id, in queue order
ExpectedLifecycle(ids) ==
    [k \in 1..(2 * Len(ids)) |->
        IF k % 2 = 1 THEN <<"playing", Some(ids[(k + 1) \div 2])>>
                     ELSE <<"played", Some(ids[k \div 2])>>]

\* the tracks of the snapshot's history
HistoryOrder(d) == [k \in 1..Len(d.history) |-> d.history[k].url]

\* C16: the engine left alone appends playing(A), played(A), playing(B),
\* played(B) in that order for the tracks queued A then B, and when both are
\* concluded the history is [B, A].
C16_EndToEndOrder ==
    LET ids == QueuedInOrder(elog) IN
    Len(ids) >= 2 =>
        /\ IsPrefix(LifecycleOf(elog), ExpectedLifecycle(ids))
        /\ LifecycleOf(elog) = ExpectedLifecycle(ids) =>
               HistoryOrder(ReadProjection) = Reverse(ids)

\* ---- claims about the history of the projection

\* the id of the last played or failed event that references q, 0 for none
ConcludedId(content, q) ==
    LET c == {content[k].id : k \in {j \in 1..Len(content) :
                  /\ content[j].type \in {"played", "failed"}
                  /\ content[j].ref = Some(q)}}
    IN  IF c = {} THEN 0 ELSE CHOOSE m \in c : \A x \in c : x <= m

\* C17: the history is most-recent-first: of two tracks in it, the one whose
\* played/failed event has the larger id comes first, for every log.
C17_HistoryMostRecentFirst ==
    \A i, j \in 1..Len(data.history) :
        i < j => ConcludedId(flog, HistoryOrder(data)[i]) > ConcludedId(flog, HistoryOrder(data)[j])

\* ---- C18

\* the positions of the playing lines after the last cleared line
PlayingSince(content) ==
    {j \in (LastClearedPos(content) + 1)..Len(content) : content[j].type = "playing"}

\* the ref of the last playing line after the last cleared line
LastPlaying(content) ==
    content[CHOOSE m \in PlayingSince(content) : \A x \in PlayingSince(content) : x <= m].ref

\* a played/failed line after the last cleared line references q
ConcludedSince(content, q) ==
    \E j \in (LastClearedPos(content) + 1)..Len(content) :
        content[j].type \in {"played", "failed"} /\ content[j].ref = Some(q)

NowPlayingOf(o) == IF IsSome(o) THEN Some([queued_id |-> o]) ELSE None

NowPlayingNotPending ==
    IsSome(data.now_playing) =>
        Unwrap(Unwrap(data.now_playing).queued_id) \notin PendingIds(data)

C18_WitnessConcluded ==
    \E i, j \in 1..Len(flog) :
        /\ i < j /\ flog[i].type = "playing" /\ flog[j].type = "played"
        /\ flog[i].ref = flog[j].ref /\ LastPlaying(flog) = flog[i].ref
        /\ data.now_playing = None

\* ---- C19

\* the positions of the reordered lines after the last cleared line
ReorderedSince(content) ==
    {j \in (LastClearedPos(content) + 1)..Len(content) : content[j].type = "reordered"}

\* the order list of the latest of them, the empty list when there is none
LatestOrder(content) ==
    IF ReorderedSince(content) = {} THEN <<>>
    ELSE Unwrap(content[CHOOSE m \in ReorderedSince(content) :
                            \A x \in ReorderedSince(content) : x <= m].order)

\* the pending queue as the sequence of its queued ids
PendingOrder(d) == [k \in 1..Len(d.items) |-> Unwrap(d.items[k].queued_id)]

\* the position of a named id in an order that names it once
PosIn(order, q) == CHOOSE i \in 1..Len(order) : order[i] = q

\* C19: with ord the order list of the latest reordered event after the
\* last cleared event (the empty list when there is none), for pending items
\* a before b: if both are named in ord, a stands before b in ord; a named b
\* never follows an unnamed a; if neither is named, a has the smaller id.
\* Without a reordered event this is ascending id order.
C19_PendingFollowsReorder ==
    LET ord == LatestOrder(flog)
        P   == PendingOrder(data)
        named(q) == q \in SeqSet(ord)
    IN  \A a, b \in 1..Len(P) :
            a < b =>
              /\ (named(P[a]) /\ named(P[b])) => PosIn(ord, P[a]) < PosIn(ord, P[b])
              /\ ~(~named(P[a]) /\ named(P[b]))
              /\ (~named(P[a]) /\ ~named(P[b])) => P[a] < P[b]

\* two named tracks pending against their id order, followed by a track
\* the order does not name
C19_Witness ==
    LET ord == LatestOrder(flog)
        P   == PendingOrder(data)
    IN  /\ Len(P) >= 3
        /\ P[1] \in SeqSet(ord) /\ P[2] \in SeqSet(ord) /\ P[1] > P[2]
        /\ P[3] \notin SeqSet(ord)

\* a named track stands behind an unnamed one with a larger id in id order
\* and is pending in front of it
C19_WitnessNamedFirst ==
    LET ord == LatestOrder(flog)
        P   == PendingOrder(data)
    IN  /\ Len(P) >= 2
        /\ P[1] \in SeqSet(ord) /\ P[2] \notin SeqSet(ord) /\ P[1] > P[2]

----------------------------------------------------------------------------
(* SpecQueueTrack: queue_track on a pipeline with a shared queue or with a  *)
(* local-only queue (shared_queue = None), beside the playback loop and the *)
(* refresh task that consume the pending list.                              *)

\* the urls given to queue_track on a local-only queue
Urls == {"abc", "def"}

\* tracks in the pending list of a local-only queue
MaxLocalQueue == 3

\* lines 655-660: the track queue_track builds for a local-only queue
LocalTrack(url) == [url |-> url, title |-> "Loading...", queued_id |-> None]

\* get_queue: the urls of the pending list
GetQueue(e) == [k \in 1..Len(e.queue) |-> e.queue[k].url]

\* lines 651-654: with a shared queue the queued event is appended and the
\* result of the append, with ?, is the result of the call
QueueTrackShared(out) ==
    /\ env.shared
    /\ Allowed(out)
    /\ Cardinality(QueuedIds(elog)) < MaxQueued
    /\ LogBecomes(Appended(elog, EvQueued(NextId(elog)), out))
    /\ sync' = IF elog' # elog THEN Notify(sync) ELSE sync
    /\ UNCHANGED <<eng, lp, env, varsAppend, flog, skipres, varsRest>>

\* lines 655-663: without a shared queue the track is pushed
QueueTrackLocal(url) ==
    /\ ~env.shared
    /\ Len(eng.queue) < MaxLocalQueue
    /\ eng' = [eng EXCEPT !.queue = Append(@, LocalTrack(url))]
    /\ UNCHANGED <<elog, data, lp, sync, env, varsAppend, flog, skipres, varsRest>>

\* what queue_track returns
QueueTrackOk(out) == out = "ok"

\* the loop of a local-only pipeline appends no event
NoAppend == UNCHANGED <<elog, data, sync, env, varsAppend, flog, skipres, varsRest>>

\* lines 815-870 with shared_queue = None: the active test and the pop
LocalLoopTop(i) == ~env.shared /\ LoopTop(i, FALSE)

\* lines 874-887: the resolution fails, the loop continues
LocalResolveFailed(i) ==
    /\ ~env.shared
    /\ lp[i].pc = "resolve"
    /\ lp' = [lp EXCEPT ![i].pc = "top"]
    /\ eng' = eng
    /\ NoAppend

\* lines 875-897: resolved, status Playing
LocalResolved(i) ==
    /\ ~env.shared
    /\ lp[i].pc = "resolve"
    /\ lp' = [lp EXCEPT ![i].pc = "stream"]
    /\ eng' = [eng EXCEPT !.status = "Playing"]
    /\ NoAppend

\* lines 985-1058: the streaming loop is left, through the signal (which is
\* consumed) or through the active flag, the end of the stream or an error
LocalStreamLeft(i) ==
    /\ ~env.shared
    /\ lp[i].pc = "stream"
    /\ lp' = [lp EXCEPT ![i].pc = "top", ![i].changed = IF HasChanged(i) THEN FALSE ELSE @]
    /\ eng' = eng
    /\ NoAppend

\* a pipeline with a shared queue, or with none (YouTubePipeline::new)
InitQueueTrack ==
    \/ EngineStates(FALSE)
    \/ /\ elog = <<>>
       /\ data = FetchSharedQueueData(<<>>)
       /\ eng = [active |-> FALSE, skip_tx |-> None, loop_running |-> FALSE,
                 queue |-> <<>>, status |-> "Idle", use_webhook_updates |-> FALSE]
       /\ lp = <<>>
       /\ sync = <<>>
       /\ env = [reliable |-> FALSE, max_log |-> MaxELog, shared |-> FALSE]
       /\ store = <<>> /\ ap = <<>> /\ hist = <<>>
       /\ flog = <<>> /\ skipres = <<>>
       /\ RestIdle

NextQueueTrack ==
    \/ Start
    \/ Stop
    \/ \E out \in AppendOutcomes : QueueTrackShared(out)
    \/ \E url \in Urls : QueueTrackLocal(url)
    \/ \E i \in 1..Len(lp) :
          \/ env.shared /\ LoopTopStep(i)
          \/ env.shared /\ LoopResolvedStep(i)
          \/ env.shared /\ StreamEnded(i)
          \/ env.shared /\ SyncFetchStep(i)
          \/ env.shared /\ SyncSet(i)
          \/ env.shared /\ SyncRecv(i)
          \/ LocalLoopTop(i)
          \/ LocalResolveFailed(i)
          \/ LocalResolved(i)
          \/ LocalStreamLeft(i)

SpecQueueTrack == InitQueueTrack /\ [][NextQueueTrack]_vars

\* a call on a local-only queue puts its url at the end of what get_queue
\* returns and leaves the log alone
LocalCallAppends ==
    \A url \in Urls :
        QueueTrackLocal(url) => GetQueue(eng') = Append(GetQueue(eng), url) /\ elog' = elog

\* a call on a shared queue that returns Ok has appended one queued event
\* and left the pending list alone
SharedCallAppendsEvent ==
    \A out \in AppendOutcomes :
        (QueueTrackShared(out) /\ QueueTrackOk(out)) =>
            elog' = Append(elog, EvQueued(NextId(elog))) /\ eng'.queue = eng.queue

\* a call on a shared queue that returns an error has changed neither
SharedCallFailsClean ==
    \A out \in AppendOutcomes :
        (QueueTrackShared(out) /\ ~QueueTrackOk(out)) =>
            elog' = elog /\ eng'.queue = eng.queue

\* C20: queue_track on a local-only queue appends the track at the end of
\* the pending list, so that get_queue returns the urls in call order; on a
\* shared queue it appends a queued event and leaves the pending list
\* unchanged; when that append fails it returns an error and changes neither
\* the list nor the log.
C20_QueueTrackFrame ==
    [][LocalCallAppends /\ SharedCallAppendsEvent /\ SharedCallFailsClean]_vars

\* the first two parts alone
C20_QueueTrackAppends == [][LocalCallAppends /\ SharedCallAppendsEvent]_vars

\* two calls on a local-only queue, in this order
C20_WitnessLocal == ~env.shared /\ GetQueue(eng) = <<"abc", "def">>

\* a queued event in the shared log while the pending list is still empty
C20_WitnessShared == env.shared /\ QueuedIds(elog) # {} /\ eng.queue = <<>>

----------------------------------------------------------------------------
(* SpecFrames: the frame assembler of spawn_audio_publisher                 *)
(* (dj_publisher.rs:64-116).  The task receives PCM chunks of any size from *)
(* the pipeline's channel, keeps them in a byte buffer and hands every      *)
(* complete 10 ms frame to the audio source.  The input is one byte stream; *)
(* a chunk is the next n bytes of it.                                       *)

SAMPLE_RATE == 48000
NUM_CHANNELS == 2
SAMPLES_PER_CHANNEL == SAMPLE_RATE \div 100

\* lines 65-66
frame_size_samples == SAMPLES_PER_CHANNEL * NUM_CHANNELS
frame_size_bytes == frame_size_samples * 2

\* bytes of input the assembler is followed for
MaxInputBytes == 6200

\* the sizes of the chunks the channel delivers
ChunkSizes == {333, 959, 1919, 1920, 1921, 3841}

\* the n-th byte of the input stream
ByteAt(n) == (n * 37 + 11) % 256

\* the chunk of n bytes that follows the first fed bytes of the stream
Chunk(fed, n) == [k \in 1..n |-> ByteAt(fed + k)]

\* i16::from_le_bytes
FromLeBytes(lo, hi) ==
    LET u == lo + 256 * hi IN IF u >= 32768 THEN u - 65536 ELSE u

\* lines 86-89: chunks_exact(2) mapped through from_le_bytes
Samples(frame_bytes) ==
    [k \in 1..(Len(frame_bytes) \div 2) |->
        FromLeBytes(frame_bytes[2 * k - 1], frame_bytes[2 * k])]

\* mutant: the loop runs only while more than one frame is buffered
HasFrame_Strict(buffer) == Len(buffer) > frame_size_bytes

\* line 82: the condition of the while loop
HasFrame(buffer) == Len(buffer) >= frame_size_bytes

\* mutant: the drain empties the buffer
Drained_Clears(buffer) == <<>>

\* line 83: what buffer.drain(..frame_size_bytes) leaves
Drained(buffer) == SubSeq(buffer, frame_size_bytes + 1, Len(buffer))

\* line 83: what it yields
FrameBytes(buffer) == SubSeq(buffer, 1, frame_size_bytes)

\* lines 82-107: the while loop; st is [buffer, frames, frames_sent]
RECURSIVE ProcessFrames(_)
ProcessFrames(st) ==
    IF HasFrame(st.buffer)
    THEN ProcessFrames([st EXCEPT !.frames = Append(@, Samples(FrameBytes(st.buffer))),
                                  !.buffer = Drained(st.buffer),
                                  !.frames_sent = @ + 1])
    ELSE st

\* lines 76-108: pcm_rx.recv() returned Some(bytes)
RecvChunk(n) ==
    /\ fa.pc = "recv"
    /\ fa.fed + n <= MaxInputBytes
    /\ LET st == ProcessFrames([buffer |-> fa.buffer \o Chunk(fa.fed, n),
                                frames |-> fa.frames, frames_sent |-> fa.frames_sent])
       IN  fa' = [fa EXCEPT !.buffer = st.buffer, !.frames = st.frames,
                            !.frames_sent = st.frames_sent, !.fed = @ + n]
    /\ UNCHANGED <<varsAppend, varsFold, varsEngine, cache, raw, volume, room>>

\* lines 109-112: the channel is closed
RecvClosed ==
    /\ fa.pc = "recv"
    /\ fa' = [fa EXCEPT !.pc = "closed"]
    /\ UNCHANGED <<varsAppend, varsFold, varsEngine, cache, raw, volume, room>>

\* lines 72-75: the shutdown signal
Shutdown ==
    /\ fa.pc = "recv"
    /\ fa' = [fa EXCEPT !.pc = "shutdown"]
    /\ UNCHANGED <<varsAppend, varsFold, varsEngine, cache, raw, volume, room>>

\* lines 67-68; frames: what capture_frame was given; fed: bytes received
InitFrames ==
    /\ fa = [pc |-> "recv", buffer |-> <<>>, frames |-> <<>>, frames_sent |-> 0, fed |-> 0]
    /\ store = <<>> /\ ap = <<>> /\ hist = <<>>
    /\ flog = <<>> /\ data = <<>> /\ skipres = <<>>
    /\ elog = <<>> /\ eng = <<>> /\ lp = <<>> /\ sync = <<>> /\ env = <<>>
    /\ cache = <<>> /\ raw = <<>> /\ volume = <<>> /\ room = <<>>

NextFrames == (\E n \in ChunkSizes : RecvChunk(n)) \/ RecvClosed \/ Shutdown

SpecFrames == InitFrames /\ [][NextFrames]_vars

\* C21: every frame handed to the audio source holds exactly 480 samples
\* per channel for 2 channels, that is 1920 bytes, whatever the sizes of the
\* chunks; and after each chunk fewer than 1920 bytes remain buffered.
C21_FrameExactness ==
    /\ frame_size_bytes = 1920
    /\ \A k \in 1..Len(fa.frames) : Len(fa.frames[k]) * 2 = 1920
    /\ Len(fa.buffer) < 1920

\* chunks of sizes not aligned to the frame have added up to three frames
\* and a remainder
C21_Witness ==
    /\ Len(fa.frames) = 3
    /\ Len(fa.buffer) > 0
    /\ fa.fed % frame_size_bytes # 0

\* i16::to_le_bytes
ToLeBytes(s) == LET u == s % 65536 IN <<u % 256, u \div 256>>

\* the bytes of a frame of samples
BytesOf(samples) ==
    [k \in 1..(2 * Len(samples)) |->
        ToLeBytes(samples[(k + 1) \div 2])[IF k % 2 = 1 THEN 1 ELSE 2]]

\* the input so far
Stream(n) == Chunk(0, n)

\* the bytes of the frames emitted so far, in order, then the buffer
RECURSIVE Flatten(_)
Flatten(frames) ==
    IF frames = <<>> THEN <<>> ELSE BytesOf(Head(frames)) \o Flatten(Tail(frames))

\* C22: the bytes of the emitted frames followed by the retained buffer are
\* the bytes of the input chunks, in order; the number of frames emitted is
\* floor(input bytes / frame size).
C22_NoByteLost ==
    /\ Flatten(fa.frames) \o fa.buffer = Stream(fa.fed)
    /\ Len(fa.frames) = fa.fed \div frame_size_bytes
    /\ fa.frames_sent = Len(fa.frames)

\* one chunk has completed two frames at once and left a remainder, after
\* an earlier chunk had left a partial frame
C22_Witness ==
    /\ Len(fa.frames) >= 3
    /\ fa.fed = 333 + 1919 + 3841
    /\ Len(fa.buffer) = fa.fed - 3 * frame_size_bytes

----------------------------------------------------------------------------
(* SpecCache: the audio cache directory (one <id>.pcm and one <id>.title    *)
(* file per video id), the playback loop that streams a track through       *)
(* fetch_audio_streaming, and the prefetch pass of the queue-refresh task    *)
(* with its eviction.  The decoded audio of a track is a sequence of chunks; *)
(* a file holds the chunks written to it, in the order they were written.    *)

\* the video ids that name cache entries
VideoIds == 1..12

\* chunks the decoded stream of a track consists of
TrackChunks == 2

\* the complete decoded audio of a track
FullAudio == [k \in 1..TrackChunks |-> k]

\* what fetch_title returns: the title, or "Unknown" when yt-dlp fails
Titles == {"Song", "Unknown"}

\* line 1470: the capacity prefetch_tracks enforces
CacheLimit == 10

\* fetch_audio_streaming calls of the loop, and prefetch passes, followed
MaxFetches == 2
MaxPrefetches == 1

\* a .pcm file: its content and its modification time
PcmFile(d, m) == Some([data |-> d, mtime |-> m])

\* lines 292-293: pcm_path.exists() && title_path.exists()
CacheHit(dir, u) == IsSome(dir.pcm[u]) /\ IsSome(dir.title[u])

\* lines 1476-1487: the entries of read_dir with extension pcm, in the
\* order read_dir lists them
PcmFiles(dir, listing) == SelectSeq(listing, LAMBDA u : IsSome(dir.pcm[u]))

\* the modification times enforce_cache_limit sorts by
MTime(dir) ==
    [u \in DOMAIN dir.pcm |-> IF IsSome(dir.pcm[u]) THEN Unwrap(dir.pcm[u]).mtime ELSE 0]

\* mutant: the files are taken from the newest end of the sorted list
ToRemove_Newest(dir, listing, max_items) ==
    LET files == PcmFiles(dir, listing) IN
    IF Len(files) <= max_items THEN <<>>
    ELSE SubSeq(SortByKey(files, MTime(dir)), max_items + 1, Len(files))

\* lines 1489-1496: nothing at or under the limit, else the first
\* len - max_items files of the list sorted by mtime ascending
ToRemove(dir, listing, max_items) ==
    LET files == PcmFiles(dir, listing) IN
    IF Len(files) <= max_items THEN <<>>
    ELSE SubSeq(SortByKey(files, MTime(dir)), 1, Len(files) - max_items)

\* lines 1496-1502: remove_file on the .pcm and on the matching .title
RemoveFiles(dir, ids) ==
    [pcm   |-> [u \in DOMAIN dir.pcm |-> IF u \in ids THEN None ELSE dir.pcm[u]],
     title |-> [u \in DOMAIN dir.title |-> IF u \in ids THEN None ELSE dir.title[u]]]

\* enforce_cache_limit
EnforceCacheLimit(dir, listing, max_items) ==
    RemoveFiles(dir, SeqSet(ToRemove(dir, listing, max_items)))

\* the ids in ascending order: the listing used where all mtimes differ
AscendingIds == [k \in 1..Cardinality(VideoIds) |-> k]

\* the reader of the playback loop: no stream, the stdout of the yt-dlp |
\* ffmpeg process (teed into the cache file), or a cached file
NoReader == [pc |-> "idle", id |-> 0, pos |-> 0, file |-> <<>>, title |-> "", linked |-> FALSE]

EmptyDir == [pcm |-> [u \in VideoIds |-> None], title |-> [u \in VideoIds |-> None]]

\* ten complete entries left by earlier sessions, entry u written at time u
FullDir ==
    [pcm   |-> [u \in VideoIds |-> IF u <= CacheLimit THEN PcmFile(FullAudio, u) ELSE None],
     title |-> [u \in VideoIds |-> IF u <= CacheLimit THEN Some("Song") ELSE None]]

\* the tracks the loop plays and the tracks the refresh task prefetches
PlayIds == {1, 11}
PrefetchIds == {11, 12}

\* lines 789-792: the urls of the first two pending items
PrefetchLists == {<<>>} \cup {<<u>> : u \in PrefetchIds}
                 \cup ({<<u, v>> : u, v \in PrefetchIds} \ {<<u, u>> : u \in PrefetchIds})

CacheUnchanged ==
    UNCHANGED <<varsAppend, varsFold, varsEngine, fa, raw, volume, room>>

\* lines 291-304: the cache check of fetch_audio_streaming
ServesFromCache(dir, u) == CacheHit(dir, u)

\* fetch_audio_streaming(url), called by the loop for the track it popped:
\* a cache hit opens the cached file; otherwise the title is resolved and
\* written, the process is spawned and the cache file is created (empty)
FetchAudioStreaming(u) ==
    /\ cache.rd.pc = "idle"
    /\ cache.fetches < MaxFetches
    /\ IF ServesFromCache(cache.dir, u)
       THEN cache' = [cache EXCEPT
                !.rd = [pc |-> "cached", id |-> u, pos |-> 0,
                        file |-> Unwrap(cache.dir.pcm[u]).data,
                        title |-> IF IsSome(cache.dir.title[u])
                                  THEN Unwrap(cache.dir.title[u]) ELSE "Cached",
                        linked |-> TRUE],
                !.fetches = @ + 1]
       ELSE \E t \in Titles :
            cache' = [cache EXCEPT
                !.dir.title[u] = Some(t),
                !.dir.pcm[u] = PcmFile(<<>>, cache.clock + 1),
                !.clock = @ + 1,
                !.resolved = @ + 1,
                !.done[u] = None,
                !.rd = [pc |-> "process", id |-> u, pos |-> 0, file |-> <<>>,
                        title |-> t, linked |-> TRUE],
                !.fetches = @ + 1]
    /\ CacheUnchanged

\* TeeReader::poll_read (lines 43-67) under reader.read (line 1019): the
\* next chunk of the process is read; the result of poll_write on the cache
\* file is dropped, so the chunk is in the file only if the file took it
\* (it does not while its previous write is still in flight)
ReadFromProcess(written) ==
    LET r == cache.rd IN
    /\ r.pc = "process"
    /\ r.pos < TrackChunks
    /\ IF written /\ r.linked
       THEN cache' = [cache EXCEPT
                !.rd.pos = @ + 1,
                !.dir.pcm[r.id] = PcmFile(Append(Unwrap(@).data, r.pos + 1), cache.clock + 1),
                !.clock = @ + 1]
       ELSE cache' = [cache EXCEPT !.rd.pos = @ + 1]
    /\ CacheUnchanged

\* line 1019 on a cached file
ReadFromCache ==
    /\ cache.rd.pc = "cached"
    /\ cache.rd.pos < Len(cache.rd.file)
    /\ cache' = [cache EXCEPT !.rd.pos = @ + 1]
    /\ CacheUnchanged

\* line 1020: Ok(0), the end of the stream.  done records that a fetch of
\* an uncached track has run to its end, and the title it returned.
StreamEof ==
    LET r == cache.rd IN
    /\ \/ r.pc = "process" /\ r.pos = TrackChunks
       \/ r.pc = "cached" /\ r.pos = Len(r.file)
    /\ cache' = [cache EXCEPT
            !.rd = NoReader,
            !.done[r.id] = IF r.pc = "process" /\ r.linked THEN Some(r.title) ELSE @]
    /\ CacheUnchanged

\* lines 987-1016, 1060-1061: skip or stop before the end of the stream; the
\* reader is dropped
StreamAbandoned ==
    LET r == cache.rd IN
    /\ \/ r.pc = "process" /\ r.pos < TrackChunks
       \/ r.pc = "cached" /\ r.pos < Len(r.file)
    /\ cache' = [cache EXCEPT !.rd = NoReader]
    /\ CacheUnchanged

\* lines 789-795: the refresh task calls prefetch_tracks
PrefetchStart(urls) ==
    /\ cache.pf.pc = "idle"
    /\ cache.prefetches < MaxPrefetches
    /\ cache' = [cache EXCEPT !.pf = [pc |-> "run", urls |-> urls], !.prefetches = @ + 1]
    /\ CacheUnchanged

\* lines 1455-1467 and fetch_audio (206-266): a url whose .pcm exists is
\* passed over; otherwise the track is downloaded whole and, when that
\* succeeded, the .pcm and then the .title are written
PrefetchNext(ok) ==
    LET u == Head(cache.pf.urls) IN
    /\ cache.pf.pc = "run"
    /\ cache.pf.urls # <<>>
    /\ IF IsSome(cache.dir.pcm[u])
       THEN ok /\ cache' = [cache EXCEPT !.pf.urls = Tail(@)]
       ELSE \E t \in Titles :
            cache' = [cache EXCEPT
                !.pf.urls = Tail(@),
                !.resolved = @ + 1,
                !.dir.pcm[u] = IF ok THEN PcmFile(FullAudio, cache.clock + 1) ELSE @,
                !.dir.title[u] = IF ok THEN Some(t) ELSE @,
                !.clock = IF ok THEN @ + 1 ELSE @]
    /\ CacheUnchanged

\* line 1470: enforce_cache_limit(cache_dir, 10) ends the pass
PrefetchEnforce ==
    LET gone == SeqSet(ToRemove(cache.dir, AscendingIds, CacheLimit)) IN
    /\ cache.pf.pc = "run"
    /\ cache.pf.urls = <<>>
    /\ cache' = [cache EXCEPT
            !.dir = EnforceCacheLimit(cache.dir, AscendingIds, CacheLimit),
            !.done = [u \in VideoIds |-> IF u \in gone THEN None ELSE cache.done[u]],
            !.rd.linked = IF cache.rd.id \in gone THEN FALSE ELSE @,
            !.pf = [pc |-> "idle", urls |-> <<>>]]
    /\ CacheUnchanged

InitCache ==
    /\ cache \in {[dir |-> d, clock |-> CacheLimit, rd |-> NoReader,
                   pf |-> [pc |-> "idle", urls |-> <<>>],
                   done |-> [u \in VideoIds |-> None],
                   resolved |-> 0, fetches |-> 0, prefetches |-> 0] :
                  d \in {EmptyDir, FullDir}}
    /\ store = <<>> /\ ap = <<>> /\ hist = <<>>
    /\ flog = <<>> /\ data = <<>> /\ skipres = <<>>
    /\ elog = <<>> /\ eng = <<>> /\ lp = <<>> /\ sync = <<>> /\ env = <<>>
    /\ fa = <<>> /\ raw = <<>> /\ volume = <<>> /\ room = <<>>

NextCache ==
    \/ \E u \in PlayIds : FetchAudioStreaming(u)
    \/ \E written \in BOOLEAN : ReadFromProcess(written)
    \/ ReadFromCache
    \/ StreamEof
    \/ StreamAbandoned
    \/ \E urls \in PrefetchLists : PrefetchStart(urls)
    \/ \E ok \in BOOLEAN : PrefetchNext(ok)
    \/ PrefetchEnforce

SpecCache == InitCache /\ [][NextCache]_vars

\* C23: a fetch that is served as a cache hit serves the complete decoded
\* audio of the track: the cached file the loop reads from holds every
\* chunk of the stream, also when an earlier playback of the track was
\* abandoned mid-stream.
C23_NoPartialEntry ==
    cache.rd.pc = "cached" => cache.rd.file = FullAudio

\* C24: cache round trip: when a fetch of an uncached track has run to the
\* end of its stream (and the entry has not been evicted since), the next
\* fetch of the track is a cache hit that returns the same title and the
\* complete audio and does not invoke the resolver.
C24_CacheRoundTrip ==
    [][\A u \in PlayIds :
          (FetchAudioStreaming(u) /\ IsSome(cache.done[u])) =>
              /\ cache'.rd.pc = "cached"
              /\ cache'.rd.title = Unwrap(cache.done[u])
              /\ cache'.rd.file = FullAudio
              /\ cache'.resolved = cache.resolved]_vars

\* the same for streams every chunk of which the cache file accepted
C24_RoundTripOfFullEntry ==
    [][\A u \in PlayIds :
          (FetchAudioStreaming(u) /\ IsSome(cache.done[u])
              /\ Unwrap(cache.dir.pcm[u]).data = FullAudio) =>
              /\ cache'.rd.pc = "cached"
              /\ cache'.rd.title = Unwrap(cache.done[u])
              /\ cache'.rd.file = FullAudio
              /\ cache'.resolved = cache.resolved]_vars

\* a second fetch after a complete first one is served from the cache
C24_Witness ==
    /\ cache.rd.pc = "cached"
    /\ IsSome(cache.done[cache.rd.id])
    /\ cache.resolved = 1
    /\ cache.fetches = 2

\* C25: the cache entry of the track the playback loop is reading is not
\* removed while the loop reads it, whatever the interleaving of the
\* prefetch and eviction pass with the loop.
C25_NoEvictionOfCurrent ==
    [][(cache.rd.pc # "idle" /\ cache'.rd.pc # "idle" /\ IsSome(cache.dir.pcm[cache.rd.id]))
            => IsSome(cache'.dir.pcm[cache.rd.id])]_vars

----------------------------------------------------------------------------
(* SpecEvict: enforce_cache_limit applied to a directory: any .pcm files    *)
(* with any modification times (equal ones included), with or without their *)
(* .title files, listed by read_dir in either order, and any capacity.      *)

\* files, modification times and capacities the function is applied to
MaxEvictFiles == 3
MaxMTime == 2
MaxCapacity == 2

EvictIds == 1..MaxEvictFiles

\* the directories: per id a .pcm file or none, a .title file or none
EvictDirs ==
    [pcm   : [EvictIds -> {None} \cup {PcmFile(FullAudio, t) : t \in 1..MaxMTime}],
     title : [EvictIds -> {None, Some("Song")}]]

\* read_dir lists the entries in an order of its own
Listings ==
    {[k \in EvictIds |-> k], [k \in EvictIds |-> MaxEvictFiles + 1 - k]}

\* enforce_cache_limit(cache_dir, max_items)
EnforceStep ==
    /\ cache.pc = "before"
    /\ cache' = [cache EXCEPT
            !.pc = "after",
            !.before = cache.dir,
            !.dir = EnforceCacheLimit(cache.dir, cache.listing, cache.max_items)]
    /\ CacheUnchanged

InitEvict ==
    /\ cache \in {[pc |-> "before", dir |-> d, before |-> d, listing |-> l, max_items |-> n] :
                  d \in EvictDirs, l \in Listings, n \in 0..MaxCapacity}
    /\ store = <<>> /\ ap = <<>> /\ hist = <<>>
    /\ flog = <<>> /\ data = <<>> /\ skipres = <<>>
    /\ elog = <<>> /\ eng = <<>> /\ lp = <<>> /\ sync = <<>> /\ env = <<>>
    /\ fa = <<>> /\ raw = <<>> /\ volume = <<>> /\ room = <<>>

NextEvict == EnforceStep

SpecEvict == InitEvict /\ [][NextEvict]_vars

\* the ids that have a .pcm file
PcmIds(dir) == {u \in DOMAIN dir.pcm : IsSome(dir.pcm[u])}

Min(a, b) == IF a <= b THEN a ELSE b

\* C26: after enforce_cache_limit with capacity N, min(count, N) .pcm files
\* remain.  With at most N files nothing is removed.  With more, count - N
\* files are removed, none of them modified later than a file that remains,
\* each together with its .title file; the files that remain are untouched.
C26_EvictionBound ==
    cache.pc = "after" =>
        LET b     == cache.before
            a     == cache.dir
            count == Cardinality(PcmIds(b))
            gone  == PcmIds(b) \ PcmIds(a)
        IN  /\ Cardinality(PcmIds(a)) = Min(count, cache.max_items)
            /\ PcmIds(a) \subseteq PcmIds(b)
            /\ count <= cache.max_items => a = b
            /\ Cardinality(gone) = count - Min(count, cache.max_items)
            /\ \A r \in gone, k \in PcmIds(a) : MTime(b)[r] <= MTime(b)[k]
            /\ \A r \in gone : a.title[r] = None
            /\ \A u \in DOMAIN b.pcm :
                  u \notin gone => a.pcm[u] = b.pcm[u] /\ a.title[u] = b.title[u]

\* three files over a capacity of one: the two oldest are removed with
\* their titles, the newest stays
C26_Witness ==
    /\ cache.pc = "after"
    /\ cache.max_items = 1
    /\ PcmIds(cache.before) = EvictIds
    /\ \A u \in EvictIds : IsSome(cache.before.title[u])
    /\ MTime(cache.before) = [u \in EvictIds |-> IF u = 2 THEN 2 ELSE 1]
    /\ PcmIds(cache.dir) = {2}
    /\ cache.dir.title = [u \in EvictIds |-> IF u = 2 THEN Some("Song") ELSE None]

----------------------------------------------------------------------------
(* SpecRaw: the log file as text.  A line is a JSON object or not; as an    *)
(* object it has or lacks the fields id and type that QueueEvent requires   *)
(* (lines 458-469; url, title, by, ref and order are optional).  The        *)
(* participants append events; anything else may add a line of any kind.    *)

\* lines of the file followed
MaxRawLen == 4

\* the text of an event as the append writes it (event.to_string())
ToLine(e) ==
    [json |-> TRUE, id |-> Some(e.id), type |-> Some(e.type), ref |-> e.ref, order |-> e.order]

\* serde_json::from_str::<QueueEvent>(line): Err unless the line is a JSON
\* object with an id and a type
Deserialize(line) ==
    IF line.json /\ IsSome(line.id) /\ IsSome(line.type)
    THEN Some([id |-> Unwrap(line.id), type |-> Unwrap(line.type),
               ref |-> line.ref, order |-> line.order])
    ELSE None

\* lines that do not parse: no JSON, an object without id, an object with
\* an id and no type
MalformedLines ==
    {[json |-> FALSE, id |-> None, type |-> None, ref |-> None, order |-> None],
     [json |-> TRUE, id |-> None, type |-> Some("queued"), ref |-> None, order |-> None],
     [json |-> TRUE, id |-> Some(MaxRawLen + 5), type |-> None, ref |-> Some(1), order |-> None]}

\* mutant: a line that does not parse ends the fold with nothing
ApplyLine_Resets(st, line) ==
    IF IsSome(Deserialize(line)) THEN ApplyEvent(st, Unwrap(Deserialize(line))) ELSE FoldStart

\* lines 1108-1172: one iteration over content.lines(): Ok(event) is
\* applied, Err is logged
ApplyLine(st, line) ==
    IF IsSome(Deserialize(line)) THEN ApplyEvent(st, Unwrap(Deserialize(line))) ELSE st

RECURSIVE FoldText(_, _)
FoldText(st, lines) ==
    IF lines = <<>> THEN st ELSE FoldText(ApplyLine(st, Head(lines)), Tail(lines))

\* fetch_shared_queue_data on the text of the file
FetchFromText(lines) == Project(FoldText(FoldStart, lines))

\* mutant: the id is read from every JSON line that carries one
LineId_AnyJson(line) == IF line.json /\ IsSome(line.id) THEN Unwrap(line.id) ELSE 0

\* lines 1521-1525: the id of a line that parses as an event, 0 otherwise
LineId(line) == IF IsSome(Deserialize(line)) THEN Unwrap(Deserialize(line)).id ELSE 0

\* lines 1520-1526: max_id over the lines
RECURSIVE TextMaxId(_)
TextMaxId(lines) ==
    IF lines = <<>> THEN 0
    ELSE Max(TextMaxId(SubSeq(lines, 1, Len(lines) - 1)), LineId(lines[Len(lines)]))

\* lines 1527-1534: the content written back: the content read, then the
\* text of the new event
NewText(lines, build_event) == Append(lines, ToLine(build_event[TextMaxId(lines) + 1]))

\* the events the participants append: queued, cleared, and events that
\* reference a queued id
EventBuilders ==
    {[i \in 1..(2 * MaxRawLen + 6) |-> EvQueued(i)], [i \in 1..(2 * MaxRawLen + 6) |-> EvCleared(i)]}
    \cup {[i \in 1..(2 * MaxRawLen + 6) |-> EvRef(i, t, r)] :
            t \in {"playing", "played", "skip"}, r \in RefIds}

RawUnchanged ==
    UNCHANGED <<varsAppend, varsFold, varsEngine, fa, cache, volume, room>>

\* append_event_with_retry on the text, and the projection read afterwards
AppendToText ==
    /\ Len(raw.lines) < MaxRawLen
    /\ \E b \in EventBuilders :
          raw' = [lines |-> NewText(raw.lines, b),
                  data  |-> FetchFromText(NewText(raw.lines, b))]
    /\ RawUnchanged

\* a line that is no event gets into the file (an edit of the repository
\* file by hand, a truncated write)
ForeignLine ==
    /\ Len(raw.lines) < MaxRawLen
    /\ \E l \in MalformedLines :
          raw' = [lines |-> Append(raw.lines, l),
                  data  |-> FetchFromText(Append(raw.lines, l))]
    /\ RawUnchanged

InitRaw ==
    /\ raw = [lines |-> <<>>, data |-> FetchFromText(<<>>)]
    /\ store = <<>> /\ ap = <<>> /\ hist = <<>>
    /\ flog = <<>> /\ data = <<>> /\ skipres = <<>>
    /\ elog = <<>> /\ eng = <<>> /\ lp = <<>> /\ sync = <<>> /\ env = <<>>
    /\ fa = <<>> /\ cache = <<>> /\ volume = <<>> /\ room = <<>>

NextRaw == AppendToText \/ ForeignLine

SpecRaw == InitRaw /\ [][NextRaw]_vars

\* the events of the lines that parse, in order
RECURSIVE Parsed(_)
Parsed(lines) ==
    IF lines = <<>> THEN <<>>
    ELSE (IF IsSome(Deserialize(Head(lines))) THEN <<Unwrap(Deserialize(Head(lines)))>> ELSE <<>>)
         \o Parsed(Tail(lines))

\* the projection of the text is the projection of its parseable lines
MalformedSkipped == raw.data = FetchSharedQueueData(Parsed(raw.lines))

\* an append keeps every line and adds one event whose id is one above the
\* largest id of the parseable lines
AppendKeepsLines ==
    AppendToText =>
        /\ SubSeq(raw'.lines, 1, Len(raw.lines)) = raw.lines
        /\ Len(raw'.lines) = Len(raw.lines) + 1
        /\ IsSome(Deserialize(raw'.lines[Len(raw'.lines)]))
        /\ Unwrap(Deserialize(raw'.lines[Len(raw'.lines)])).id = MaxId(Parsed(raw.lines)) + 1

\* C27: a line that does not parse as an event is skipped: the projection
\* of a log equals the projection of the log without its malformed lines;
\* the append takes the next id from the parseable lines only and keeps the
\* malformed lines in the content it writes back.
C27_MalformedLinesSkipped == []MalformedSkipped /\ [][AppendKeepsLines]_vars

\* an event appended behind a malformed line that carries a larger id: the
\* line is still there, the event is pending in the projection
C27_Witness ==
    \E i, j \in 1..Len(raw.lines) :
        /\ i < j
        /\ raw.lines[i].json /\ IsSome(raw.lines[i].id) /\ raw.lines[i].type = None
        /\ raw.lines[j] = ToLine(EvQueued(1))
        /\ Len(raw.data.items) = 1

----------------------------------------------------------------------------
(* SpecTwice: two readers project the log file, each at a time of its own   *)
(* and in a process of its own (the std HashMap and HashSet of the fold are *)
(* seeded per process), while the participants append.                      *)

Readers == {"r1", "r2"}

\* lines of the file followed
MaxTwiceLen == 2

\* what differs between two calls: the wall clock and the hasher seed
Times == {1, 2}
Seeds == {1, 2}

\* mutant: the pending items come out in the iteration order of a hash map
FetchRun_HashOrder(lines, run) ==
    LET d == FetchFromText(lines) IN
    [d EXCEPT !.items = IF run.seed = 1 THEN @ ELSE Reverse(@)]

\* fetch_shared_queue_data called in the environment run: the fold reads no
\* clock, and it uses its hash sets and maps through insert, contains, get
\* and clear only, never through iteration
FetchRun(lines, run) == FetchFromText(lines)

\* the events appended here
TwiceBuilders ==
    {b \in EventBuilders : b[1].type \in {"queued", "cleared"} \/ b[1].ref = Some(1)}

TwiceUnchanged ==
    UNCHANGED <<varsAppend, varsFold, varsEngine, fa, cache, volume, room>>

\* a participant appends an event
TwiceAppend ==
    /\ Len(raw.lines) < MaxTwiceLen
    /\ \E b \in TwiceBuilders : raw' = [raw EXCEPT !.lines = NewText(raw.lines, b)]
    /\ TwiceUnchanged

\* a reader calls fetch_shared_queue_data and keeps what it read and got
TwiceProject(r) ==
    /\ \E now \in Times, seed \in Seeds :
          raw' = [raw EXCEPT !.snap[r] =
                    Some([lines |-> raw.lines,
                          run   |-> [now |-> now, seed |-> seed],
                          data  |-> FetchRun(raw.lines, [now |-> now, seed |-> seed])])]
    /\ TwiceUnchanged

InitTwice ==
    /\ raw = [lines |-> <<>>, snap |-> [r \in Readers |-> None]]
    /\ store = <<>> /\ ap = <<>> /\ hist = <<>>
    /\ flog = <<>> /\ data = <<>> /\ skipres = <<>>
    /\ elog = <<>> /\ eng = <<>> /\ lp = <<>> /\ sync = <<>> /\ env = <<>>
    /\ fa = <<>> /\ cache = <<>> /\ volume = <<>> /\ room = <<>>

NextTwice == TwiceAppend \/ \E r \in Readers : TwiceProject(r)

SpecTwice == InitTwice /\ [][NextTwice]_vars

----------------------------------------------------------------------------
(* SpecVolume: the volume of an audio pipeline (YouTubePipeline or          *)
(* StubAudioPipeline) under set_volume.                                     *)

U8 == 0..255

Pipelines == {"youtube", "stub"}

\* mutant: the argument is stored as it came
min_Unclamped(a, b) == a

\* u8::min
min(a, b) == IF a <= b THEN a ELSE b

\* set_volume: store volume.min(100), Ok(()). The stub locks a mutex that
\* nothing can poison: its holders (set_volume, volume) do not panic.
SetVolume(v) ==
    /\ volume' = [volume EXCEPT !.volume = min(v, 100),
                                !.last = Some([arg |-> v, result |-> "Ok"])]
    /\ UNCHANGED <<varsAppend, varsFold, varsEngine, fa, cache, raw, room>>

\* fn volume(&self)
GetVolume == volume.volume

\* YouTubePipeline::new, StubAudioPipeline::new
InitVolume ==
    /\ \E p \in Pipelines : volume = [pipeline |-> p, volume |-> 50, last |-> None]
    /\ store = <<>> /\ ap = <<>> /\ hist = <<>>
    /\ flog = <<>> /\ data = <<>> /\ skipres = <<>>
    /\ elog = <<>> /\ eng = <<>> /\ lp = <<>> /\ sync = <<>> /\ env = <<>>
    /\ fa = <<>> /\ cache = <<>> /\ raw = <<>> /\ room = <<>>

NextVolume == \E v \in U8 : SetVolume(v)

SpecVolume == InitVolume /\ [][NextVolume]_vars

\* C29: volume clamp: set_volume(v) stores min(v, 100) and returns Ok for
\* every 8-bit v, so volume() is always between 0 and 100; 150 reads back
\* 100, 0 reads back 0, and the initial value is 50.
C29_VolumeClamp ==
    /\ GetVolume \in 0..100
    /\ volume.last = None => GetVolume = 50
    /\ IsSome(volume.last) =>
          LET c == Unwrap(volume.last) IN
          /\ c.result = "Ok"
          /\ GetVolume = (IF c.arg > 100 THEN 100 ELSE c.arg)
          /\ c.arg = 150 => GetVolume = 100
          /\ c.arg = 0 => GetVolume = 0

\* set_volume(150) was called and the volume reads back 100
C29_Witness ==
    /\ IsSome(volume.last)
    /\ Unwrap(volume.last).arg = 150
    /\ GetVolume = 100

----------------------------------------------------------------------------
(* SpecRoom: RoomState under join, leave, become_dj and stop_dj.            *)

RoomNames == {"Alice", "Bob", "Carol"}

\* Vec::contains
contains(participants, name) ==
    \E i \in 1..Len(participants) : participants[i] = name

\* Vec::retain(|p| p != name)
retain(participants, name) ==
    LET keep(p) == p # name IN SelectSeq(participants, keep)

\* RoomState::new
new == [participants |-> <<>>, dj |-> None]

\* mutant: join pushes the name whether it is there or not
join_Pushes(st, name) ==
    [st EXCEPT !.participants = Append(@, name)]

join(st, name) ==
    IF ~contains(st.participants, name)
    THEN [st EXCEPT !.participants = Append(@, name)]
    ELSE st

\* mutant: leave forgets the DJ role
leave_KeepsDj(st, name) ==
    [st EXCEPT !.participants = retain(@, name)]

leave(st, name) ==
    [participants |-> retain(st.participants, name),
     dj |-> IF st.dj = Some(name) THEN None ELSE st.dj]

\* the state after become_dj; the call returns Err exactly when the name is
\* no participant
become_dj(st, name) ==
    IF ~contains(st.participants, name)
    THEN st
    ELSE [st EXCEPT !.dj = Some(name)]

become_dj_result(st, name) ==
    IF ~contains(st.participants, name) THEN "Err" ELSE "Ok"

stop_dj(st, name) ==
    IF st.dj = Some(name) THEN [st EXCEPT !.dj = None] ELSE st

RoomOthersUnchanged ==
    UNCHANGED <<varsAppend, varsFold, varsEngine, fa, cache, raw, volume>>

\* the room after one call; last is the call and what it returned
Called(op, name, st, result) ==
    [state |-> st, last |-> Some([op |-> op, name |-> name, result |-> result])]

Join(name) ==
    /\ room' = Called("join", name, join(room.state, name), "()")
    /\ RoomOthersUnchanged

Leave(name) ==
    /\ room' = Called("leave", name, leave(room.state, name), "()")
    /\ RoomOthersUnchanged

BecomeDj(name) ==
    /\ room' = Called("become_dj", name, become_dj(room.state, name),
                      become_dj_result(room.state, name))
    /\ RoomOthersUnchanged

StopDj(name) ==
    /\ room' = Called("stop_dj", name, stop_dj(room.state, name), "()")
    /\ RoomOthersUnchanged

InitRoom ==
    /\ room = [state |-> new, last |-> None]
    /\ store = <<>> /\ ap = <<>> /\ hist = <<>>
    /\ flog = <<>> /\ data = <<>> /\ skipres = <<>>
    /\ elog = <<>> /\ eng = <<>> /\ lp = <<>> /\ sync = <<>> /\ env = <<>>
    /\ fa = <<>> /\ cache = <<>> /\ raw = <<>> /\ volume = <<>>

NextRoom ==
    \E name \in RoomNames :
        \/ Join(name)
        \/ Leave(name)
        \/ BecomeDj(name)
        \/ StopDj(name)

SpecRoom == InitRoom /\ [][NextRoom]_vars

\* the DJ, if any, is a participant, and no name is listed twice
RosterInv ==
    /\ IsSome(room.state.dj) => contains(room.state.participants, Unwrap(room.state.dj))
    /\ \A i, j \in 1..Len(room.state.participants) :
          room.state.participants[i] = room.state.participants[j] => i = j

\* become_dj by a non-participant returns an error and leaves the DJ as it
\* was; leave by the DJ clears the DJ
RosterStep ==
    IsSome(room'.last) =>
        LET c == Unwrap(room'.last) IN
        /\ (c.op = "become_dj" /\ ~contains(room.state.participants, c.name))
              => (c.result = "Err" /\ room'.state.dj = room.state.dj)
        /\ (c.op = "become_dj" /\ contains(room.state.participants, c.name))
              => (c.result = "Ok" /\ room'.state.dj = Some(c.name))
        /\ (c.op = "leave" /\ room.state.dj = Some(c.name))
              => room'.state.dj = None

\* C30: room roster invariant: after any sequence of join, leave, become_dj
\* and stop_dj the DJ (if any) is a participant and no name is listed twice;
\* become_dj by a non-participant returns an error and leaves the DJ
\* unchanged, and leave by the DJ clears the DJ.
C30_RoomRoster == []RosterInv /\ [][RosterStep]_vars

\* the DJ has just left a room that others are still in
C30_Witness ==
    /\ IsSome(room.last)
    /\ Unwrap(room.last).op = "leave"
    /\ room.state.dj = None
    /\ Len(room.state.participants) = 2
    /\ ~contains(room.state.participants, Unwrap(room.last).name)

\* a stranger asked to become DJ while somebody else was DJ
C30_WitnessRefused ==
    /\ IsSome(room.last)
    /\ Unwrap(room.last).op = "become_dj"
    /\ Unwrap(room.last).result = "Err"
    /\ IsSome(room.state.dj)

----------------------------------------------------------------------------
(* Further claims about the engine.                                         *)

\* the playing events of the shared log that reference queued id q
PlayingEvents(q) == {k \in 1..Len(elog) : IsEvent(k, "playing", Some(q))}

\* C31: the engine never starts the same queued track twice: for every
\* queued id the log holds at most one playing event, in push-notification
\* mode as well as in polling mode, for every interleaving of the
\* queue-refresh task with the loop's pop and appends.  Checked with a store
\* that never fails.
C31_StartsOnce == \A q \in RefIds : Cardinality(PlayingEvents(q)) <= 1

\* the same for the engine that polls
C31_StartsOncePolling == ~eng.use_webhook_updates => C31_StartsOnce

\* loop i is in its streaming loop
Streaming(i) == i \in 1..Len(lp) /\ lp[i].pc = "stream"

\* C32: whenever a track is streaming and skip_track() is called, the
\* streaming loop has the local signal to observe at its next chunk boundary
\* (has_changed() is true there), also when the shared-log read or the skip
\* append fails, and also when start() was called again while the loop was
\* running.
C32_SkipInterruptsStream ==
    [][\A i \in 1..Len(lp) :
          (SkipTrackStep /\ Streaming(i)) => HasChanged(i)']_vars

\* the same for calls made while the pipeline still holds the sender of the
\* loop's channel: only the failures of the read and of the append are left
C32_SkipInterruptsFirstStart ==
    [][\A i \in 1..Len(lp) :
          (SkipTrackStep /\ Streaming(i) /\ eng.skip_tx = Some(i)) => HasChanged(i)']_vars

\* the same for calls whose read and append did not fail: what is left is
\* the sender replaced by a second start()
C32_SkipInterruptsWhenCommitted ==
    [][\A i \in 1..Len(lp) :
          (SkipTrackStep /\ Streaming(i) /\ elog' # elog /\ env.reliable) => HasChanged(i)']_vars

\* loop i enters its streaming loop in this step
EntersStream(i) == lp[i].pc = "resolve" /\ lp'[i].pc = "stream"

\* C33: a track is aborted by the local control signal only if skip_track,
\* clear_queue or stop was called while that very track was streaming: when
\* a track enters the streaming loop no signal sent earlier is left for
\* has_changed() to report (the signal is only ever set by those calls, so
\* one that the streaming loop sees was then sent during this stream).
\* Stated for an engine that is active when the track enters the streaming
\* loop: a stopped engine ends the track through the active flag anyway.
C33_NoStaleSignal ==
    [][\A i \in 1..Len(lp) :
          (EntersStream(i) /\ eng'.active) => ~HasChanged(i)']_vars

----------------------------------------------------------------------------
(* A further claim about the append.                                        *)

\* the writes the store accepted for the call that participant p made last
WrittenBy(p) == {k \in 1..Len(hist) : hist[k].by = p /\ hist[k].call = ap[p].calls}

\* participant p's last call has returned
Returned(p) == ap[p].pc = "idle" /\ IsSome(ap[p].result)

\* C34: an append reports failure only when nothing was written: whenever
\* append_event_with_retry has returned an error the store accepted no write
\* of that call, and whenever the event was committed the call has returned
\* its id, also when recording the local last-seen state fails.
C34_FailureMeansNothingWritten ==
    \A p \in Writers :
        Returned(p) =>
            /\ ~Unwrap(ap[p].result).ok => WrittenBy(p) = {}
            /\ \A k \in WrittenBy(p) :
                  Unwrap(ap[p].result).ok /\ Unwrap(ap[p].result).id = hist[k].id

\* an error returned after a commit is the error of write_shared_state: the
\* last answer of the store to that call was its acceptance
C34_ErrorAfterCommitIsStateWrite ==
    \A p \in Writers :
        (Returned(p) /\ ~Unwrap(ap[p].result).ok /\ WrittenBy(p) # {}) =>
            ap[p].trace[Len(ap[p].trace)] = "ok"

----------------------------------------------------------------------------
(* The engine and a participant elsewhere: another pipeline on the same     *)
(* shared log calls skip_track and clear_shared_queue.  Its control channel *)
(* is its own, so the engine followed here gets no local signal; what the   *)
(* engine sees of those calls is their events.  The two appends of a clear   *)
(* are two steps, and the engine runs between them.                         *)

\* skip_track elsewhere, or lines 702-706 of clear_shared_queue elsewhere:
\* the skip event for the track the projection shows as now playing
ElsewhereSkip ==
    /\ IsSome(NowPlayingId)
    /\ Len(elog) < env.max_log
    /\ LogBecomes(Append(elog, EvRef(NextId(elog), "skip", Unwrap(NowPlayingId))))
    /\ sync' = Notify(sync)
    /\ UNCHANGED <<eng, lp, env, varsAppend, flog, skipres, varsRest>>

\* line 709 of clear_shared_queue elsewhere: the cleared event
ElsewhereCleared ==
    /\ ClearedCount(elog) < MaxCleared
    /\ Len(elog) < env.max_log
    /\ LogBecomes(Append(elog, EvCleared(NextId(elog))))
    /\ sync' = Notify(sync)
    /\ UNCHANGED <<eng, lp, env, varsAppend, flog, skipres, varsRest>>

NextEngineElsewhere == NextEngine \/ ElsewhereSkip \/ ElsewhereCleared

\* with a store that never fails
SpecEngineElsewhere == InitEngineReliable /\ [][NextEngineElsewhere]_vars

\* the log holds a skip event for queued id q that is newer than event e
SkipLogged(q, e) ==
    \E k \in 1..Len(elog) : IsEvent(k, "skip", Some(q)) /\ elog[k].id > e

\* C35: when a participant other than the one running the engine calls
\* clear_queue() while track q is playing, the skip event appended by the
\* clear stays visible to the engine's skip check for q after the cleared
\* event that follows it is committed: while q streams, a skip event for q
\* newer than its playing event makes shared_skip_requested report true.
C35_ClearSkipStaysVisible ==
    \A i \in 1..Len(lp) :
        (Streaming(i) /\ IsSome(lp[i].playing_event_id)
            /\ SkipLogged(Unwrap(lp[i].track), Unwrap(lp[i].playing_event_id)))
        => SkipRequestedIn(ReadProjection, Unwrap(lp[i].track), Unwrap(lp[i].playing_event_id))

\* the same while no cleared event follows the skip event
C35_SkipVisibleUntilCleared ==
    \A i \in 1..Len(lp) :
        (Streaming(i) /\ IsSome(lp[i].playing_event_id)
            /\ SkipLogged(Unwrap(lp[i].track), Unwrap(lp[i].playing_event_id))
            /\ ClearedCount(elog) = 0)
        => SkipRequestedIn(ReadProjection, Unwrap(lp[i].track), Unwrap(lp[i].playing_event_id))

\* C36: after a cleared event is committed the engine never starts (appends
\* playing for) a track whose queued id is below that cleared event's id,
\* tracks held in the local pending list when the clear happened included,
\* in polling mode and in push-notification mode.
C36_NoStartBelowCleared ==
    \A j, k \in 1..Len(elog) :
        (j < k /\ elog[j].type = "cleared" /\ elog[k].type = "playing")
        => Unwrap(elog[k].ref) > elog[j].id

\* the same for tracks the loop had not yet popped when the cleared event
\* was committed, with a store that never fails
C36_NoPopBelowCleared ==
    [][\A i \in 1..Len(lp) :
          (lp[i].pc = "top" /\ lp'[i].pc = "resolve" /\ env.reliable)
          => Unwrap(lp'[i].track) > LatestClearedId(elog)]_vars

\* loop i is at its top with nothing to pop: the pending list is empty and,
\* where the loop polls, the projection has no pending item either, so all
\* the loop does is sleep and look again (lines 858-862)
WaitsOnEmptyQueue(i) ==
    /\ lp[i].pc = "top"
    /\ eng.active
    /\ Polled(TRUE) = <<>>
    /\ Polled(FALSE) = <<>>

\* C37: while the loop is running but waiting on an empty pending queue with
\* no track in flight, the status is neither Loading nor Playing: after a
\* track ended naturally, was skipped or failed to resolve and nothing else
\* is queued, the status does not keep reporting that track.
C37_IdleWhenNothingPlays ==
    \A i \in 1..Len(lp) :
        WaitsOnEmptyQueue(i) => eng.status \notin {"Loading", "Playing"}

----------------------------------------------------------------------------
(* The engine left alone, scheduled fairly: no skip, no clear, no stop, a   *)
(* store that is reachable (every read and every append succeeds), a        *)
(* resolver that answers, a consumer that drains the publish channel, and a *)
(* notifier that signals every change of the log.                           *)

\* lines of the shared log in this scenario
MaxFairLog == 7

InitEngineFair == EngineStatesWith(TRUE, MaxFairLog)

\* the steps of the playback loop: its reads of the log succeed
LoopProgressFair ==
    \E i \in 1..Len(lp) :
        \/ LoopTop(i, TRUE)
        \/ LoopResolveFailedStep(i)
        \/ LoopResolvedStep(i)
        \/ StreamEnded(i)

\* the steps of the queue-refresh task: its reads of the log succeed
SyncProgressFair ==
    \E i \in 1..Len(sync) :
        \/ SyncFetch(i, TRUE)
        \/ SyncSet(i)
        \/ SyncRecv(i)

NextEngineFair ==
    \/ Start
    \/ QueueTrack
    \/ LoopProgressFair
    \/ SyncProgressFair

\* the loop task can take a step that changes the state: it is resolving or
\* streaming and the log takes the event it will append, or it is at its top
\* with something to pop or with the active flag off.  This is
\* ENABLED <<LoopProgressFair>>_vars written as a state predicate.
LoopReady ==
    \E i \in 1..Len(lp) :
        \/ lp[i].pc \in {"resolve", "stream"} /\ Len(elog) < env.max_log
        \/ lp[i].pc = "top" /\ (~eng.active \/ Polled(TRUE) # <<>>)

LoopReadyIsEnabled == LoopReady <=> ENABLED <<LoopProgressFair>>_vars

\* Both tasks are spawned on the tokio runtime, which runs every task that
\* is ready: weak fairness of the refresh task and of the loop.  The loop's
\* is WF_vars(LoopProgressFair) with its ENABLED spelled out as LoopReady.
SpecEngineFair ==
    /\ InitEngineFair
    /\ [][NextEngineFair]_vars
    /\ WF_vars(SyncProgressFair)
    /\ (<>[]LoopReady => []<><<LoopProgressFair>>_vars)

\* queued id q is in the shared log
QueuedInLog(q) == \E k \in 1..Len(elog) : elog[k].type = "queued" /\ elog[k].id = q

\* a played or failed event references q
ConcludedInLog(q) == Concluded(elog, q)

\* the log has reached the length it is followed for
LogFull == Len(elog) = env.max_log

\* every track queued while the engine runs is concluded
AllConcluded ==
    \A q \in 1..MaxFairLog :
        (eng.active /\ QueuedInLog(q)) => (ConcludedInLog(q) \/ LogFull)

C38_WitnessPolling ==
    /\ eng.active
    /\ ~eng.use_webhook_updates
    /\ Cardinality(QueuedIds(elog)) = 2
    /\ \A q \in QueuedIds(elog) : ConcludedInLog(q)
    /\ ~LogFull

----------------------------------------------------------------------------
(* The streaming loop of run_playback_loop (youtube_pipeline.rs 986-1057)   *)
(* seen from the source to the publish channel: each read of n bytes is     *)
(* converted to samples, scaled by the volume and sent as one message.  lp  *)
(* holds the one loop with its total_bytes, the sizes it read and the       *)
(* messages it sent; volume is the pipeline's atomic.                       *)

\* bytes of the source that are followed
MaxStreamBytes == 8

\* what reader.read(&mut buf) can return: any count from 1 to the buffer's
\* length; four sizes stand for them, two of them odd
ReadSizes == {1, 2, 3, 4}

\* the volumes whose factor volume / 100.0 is exact in f32 (0.0, 0.5, 1.0),
\* so that the product with an i16 is exact as well
StreamVolumes == {0, 50, 100}

\* `as i16` on an f32 in range: the fraction is dropped, toward zero
Truncated(num, den) ==
    IF num >= 0 THEN num \div den ELSE -((-num) \div den)

\* f32::clamp
clamp(x, lo, hi) == IF x < lo THEN lo ELSE IF x > hi THEN hi ELSE x

\* lines 1044-1045: (*s as f32 * volume_val).clamp(i16::MIN, i16::MAX) as i16
Scaled(s, v) == clamp(Truncated(s * v, 100), -32768, 32767)

\* lines 1031-1034 and 1041-1049: what is sent for the bytes of one read
Forwarded(chunk, v) ==
    LET samples == Samples(chunk)
    IN  BytesOf([k \in 1..Len(samples) |-> Scaled(samples[k], v)])

\* lines 1019-1057: a read of n bytes, converted and sent
ReadChunk(n) ==
    /\ lp[1].pc = "stream"
    /\ lp[1].total_bytes + n <= MaxStreamBytes
    /\ lp' = <<[lp[1] EXCEPT
                 !.total_bytes = @ + n,
                 !.reads = Append(@, n),
                 !.sent = Append(@, Forwarded(Chunk(lp[1].total_bytes, n), volume.volume))]>>
    /\ UNCHANGED <<varsAppend, varsFold, elog, eng, sync, env, varsRest>>

\* lines 1019-1027 and 1051-1057: a read of n bytes, and the receiver of
\* the publish channel is gone: nothing is sent, the loop is left
ReadReceiverGone(n) ==
    /\ lp[1].pc = "stream"
    /\ lp[1].total_bytes + n <= MaxStreamBytes
    /\ lp' = <<[lp[1] EXCEPT !.total_bytes = @ + n, !.pc = "done"]>>
    /\ UNCHANGED <<varsAppend, varsFold, elog, eng, sync, env, varsRest>>

\* lines 1020-1025: Ok(0) or a read error ends the loop
ReadEnd ==
    /\ lp[1].pc = "stream"
    /\ lp' = <<[lp[1] EXCEPT !.pc = "done"]>>
    /\ UNCHANGED <<varsAppend, varsFold, elog, eng, sync, env, varsRest>>

\* set_volume from the user interface while the track streams
StreamSetVolume ==
    /\ lp[1].pc = "stream"
    /\ \E v \in StreamVolumes : v # volume.volume /\ SetVolume(v)

\* lines 965 and 983-986: the loop at the start of a track's stream
InitStream ==
    /\ lp = <<[pc |-> "stream", total_bytes |-> 0, reads |-> <<>>, sent |-> <<>>]>>
    /\ \E v \in StreamVolumes : volume = [pipeline |-> "youtube", volume |-> v, last |-> None]
    /\ store = <<>> /\ ap = <<>> /\ hist = <<>>
    /\ flog = <<>> /\ data = <<>> /\ skipres = <<>>
    /\ elog = <<>> /\ eng = <<>> /\ sync = <<>> /\ env = <<>>
    /\ fa = <<>> /\ cache = <<>> /\ raw = <<>> /\ room = <<>>

NextStream ==
    \/ \E n \in ReadSizes : ReadChunk(n)
    \/ \E n \in ReadSizes : ReadReceiverGone(n)
    \/ ReadEnd
    \/ StreamSetVolume

SpecStream == InitStream /\ [][NextStream]_vars

\* the bytes sent so far
RECURSIVE SentBytes(_)
SentBytes(sent) ==
    IF sent = <<>> THEN <<>> ELSE Head(sent) \o SentBytes(Tail(sent))

\* C39: within one track's playback the PCM is forwarded in the order read
\* and no byte is lost: every chunk of n bytes read from the source is
\* forwarded to the publish channel as n bytes, for every sequence of read
\* sizes, odd sizes included.
C39_EveryByteForwarded ==
    lp[1].pc = "stream" =>
        /\ Len(lp[1].sent) = Len(lp[1].reads)
        /\ \A k \in 1..Len(lp[1].reads) : Len(lp[1].sent[k]) = lp[1].reads[k]

\* C39, the part that holds: one message per read, in the order read, each
\* holding the whole samples of its read: 2 * (n \div 2) bytes for a read
\* of n bytes, which is n for an even n.
C39_WholeSamplesForwarded ==
    lp[1].pc = "stream" =>
        /\ Len(lp[1].sent) = Len(lp[1].reads)
        /\ \A k \in 1..Len(lp[1].reads) :
               Len(lp[1].sent[k]) = 2 * (lp[1].reads[k] \div 2)

\* offset in the source of the k-th read
RECURSIVE ReadOffset(_, _)
ReadOffset(reads, k) == IF k <= 1 THEN 0 ELSE reads[k - 1] + ReadOffset(reads, k - 1)

\* C39, at full volume: as long as every read so far was even, the bytes
\* sent are the bytes of the source, in order.
C39_EvenReadsAligned ==
    (/\ lp[1].pc = "stream"
     /\ volume.volume = 100
     /\ \A k \in 1..Len(lp[1].reads) : lp[1].reads[k] % 2 = 0
     /\ \A k \in 1..Len(lp[1].sent) :
            lp[1].sent[k] = Forwarded(Chunk(ReadOffset(lp[1].reads, k), lp[1].reads[k]), 100))
        => SentBytes(lp[1].sent) = Stream(lp[1].total_bytes)

\* after an odd read the stream sent is no longer the source's, although
\* the volume is full: the sample split by the read is lost
C39_OddReadMisaligns ==
    ~(/\ lp[1].pc = "stream"
      /\ volume.volume = 100
      /\ lp[1].reads = <<3, 4>>
      /\ lp[1].sent = <<Forwarded(Chunk(0, 3), 100), Forwarded(Chunk(3, 4), 100)>>
      /\ SentBytes(lp[1].sent) # Stream(7))

----------------------------------------------------------------------------
(* SpecFold: the skip map and the needs-metadata list after a cleared      *)
(* event.                                                                   *)

\* queued id q is at or below the id of the latest cleared event
AtOrBelowCleared(q) == q <= LatestClearedId(flog)

\* C40: after the fold of any log, the skip map and the needs-metadata list
\* hold no queued id at or below the id of the latest cleared event, even
\* when a skip or metadata event referencing such an id is appended after
\* the cleared event.
C40_ClearedIdsDiscarded ==
    \A q \in 1..MaxLogLen :
        AtOrBelowCleared(q) =>
            /\ ~MapHas(data.skip_events, q)
            /\ q \notin SeqSet(data.needs_metadata)

\* C40, the part that holds: the needs-metadata list holds no id at or
\* below the latest cleared event, whatever is appended after it.
C40_NeedsMetadataAboveCleared ==
    \A q \in 1..MaxLogLen :
        AtOrBelowCleared(q) => q \notin SeqSet(data.needs_metadata)

\* C40, the part that holds for the skip map: an id at or below the latest
\* cleared event is in the skip map only through a skip event appended
\* after that cleared event.
C40_SkipMapHoldsLaterSkipsOnly ==
    \A q \in 1..MaxLogLen :
        (AtOrBelowCleared(q) /\ MapHas(data.skip_events, q)) =>
            /\ MapGet(data.skip_events, q) > LatestClearedId(flog)
            /\ \E k \in (LastClearedPos(flog) + 1)..Len(flog) :
                   /\ flog[k].type = "skip"
                   /\ flog[k].ref = Some(q)
                   /\ flog[k].id = MapGet(data.skip_events, q)

\* a metadata event for a cleared id was appended after the cleared event
\* and the id is not reported as needing metadata
C40_MetadataAfterCleared ==
    ~(\E q \in 1..MaxLogLen, k \in 1..Len(flog) :
          /\ AtOrBelowCleared(q)
          /\ k > LastClearedPos(flog)
          /\ flog[k].type = "metadata"
          /\ flog[k].ref = Some(q)
          /\ q \notin SeqSet(data.needs_metadata))

====
